---- MODULE Spec2Model ----
(***************************************************************************)
(* HeteroLRBase.fit_binary / review_models / share_init_model / share_z    *)
(* (federatedml/linear_model/caesar_model/hetero_lr/hetero_lr_base.py)     *)
(* run by a Guest and a Host process that share nothing but a channel of   *)
(* tagged messages with non-blocking sends and blocking receives.          *)
(*                                                                         *)
(* Tensors are symbolic: a share records which logical tensor it is a      *)
(* share of ("wa" = Host weights, "wb" = Guest weights), who holds it, the *)
(* length of the vector and the batch step that produced it; a plaintext   *)
(* records the tensor it discloses.  A tensor name f"wb_{n}" is the pair   *)
(* name "wb", suffix <<n>>.                                                *)
(***************************************************************************)
EXTENDS Integers, Sequences, FiniteSets, TLC

\* Bounds of the model.
MaxIter == 2
MaxBatches == 2
MaxFeatures == 3

\* The number of operations on the local cache in one run of the model
MaxOps == 3

\* The processes that work on the local cache of one model
Procs == {"P1", "P2"}

\* No operation
NoOp == [op |-> "none", component |-> "-", alias |-> "-", names |-> {}]

\* consts.GUEST / consts.HOST
GUEST == "guest"
HOST == "host"
Party == {GUEST, HOST}

\* self.other_party
OtherParty(p) == IF p = GUEST THEN HOST ELSE GUEST

\* model_param.review_strategy: the two implemented names and one that is not.
ReviewStrategies == {"respectively", "all_review_in_guest", "unknown"}

VARIABLES
    review_strategy,      \* model_param.review_strategy (same at both parties)
    max_iter,             \* self.max_iter
    n_batches,            \* len(encoded_batch_data)
    features,             \* features[p]: length of party p's weight vector w
    missing,              \* missing[p]: the operation p's class does not override
    writes,               \* writes[p][f]: assignments to self.f in the current
                          \* iteration of the while loop
    pc,                   \* pc[p]: where party p is in fit_binary
    raised,               \* raised[p]: the exception that ended p's run, or "none"
    n_iter_,              \* self.n_iter_
    batch_idx,            \* batch_idx of the for loop
    is_converged,         \* self.is_converged
    labels,               \* self.labels
    hosted_model_weights, \* self.hosted_model_weights
    model_weights,        \* self.model_weights
    new_w,                \* local new_w of fit_binary
    last_models,          \* local last_models of fit_binary
    w_self,               \* local w_self of fit_binary
    w_remote,             \* local w_remote of fit_binary
    y,                    \* local y of fit_binary
    calls,                \* calls[p]: the calls p made, in order
    reviewed,             \* reviewed[p]: suffixes whose review_models returned
    channel,              \* messages sent and not yet received
    sent,                 \* every message ever sent
    delivered,            \* every message ever received
    exported,             \* exported[p]: what get_single_model_param returned
                          \* to p after fit_binary, or None
    \* fate_flow PipelinedModel: the local cache of one model id and version on
    \* disk, and the processes that work on it
    path_exists,          \* os.path.exists(self.model_path)
    subdirs,              \* the directories made below model_path
    meta,                 \* the file define_meta.yaml
    files,                \* the buffer files below variables/data
    lock,                 \* the holder of the FileLock model_path/.lock, or "free"
    archive,              \* the archive file given to unpack_model
    sha1_file,            \* the file archive_file_path + '.sha1'
    cpc,                  \* cpc[q]: where process q is in its operation
    cop,                  \* cop[q]: the operation process q runs, with arguments
    loaded,               \* loaded[q]: local _define_index of update_component_meta
    cerr,                 \* cerr[q]: the exception that ended q's last operation
    started,              \* the number of operations started so far
    completed             \* the operations that returned normally, by process

vars == <<review_strategy, max_iter, n_batches, features, missing, writes, pc, raised, n_iter_,
          batch_idx, is_converged, labels, hosted_model_weights, model_weights,
          new_w, last_models, w_self, w_remote, y, calls, reviewed, channel,
          sent, delivered, exported, path_exists, subdirs, meta, files, lock,
          archive, sha1_file, cpc, cop, loaded, cerr, started, completed>>

\* The state of the local cache and of the processes that work on it
cache_vars == <<path_exists, subdirs, meta, files, lock, archive, sha1_file,
                cpc, cop, loaded, cerr, started, completed>>

\* The state of the hetero LR training
lr_vars == <<review_strategy, max_iter, n_batches, features, missing, writes, pc,
             raised, n_iter_, batch_idx, is_converged, labels,
             hosted_model_weights, model_weights, new_w, last_models, w_self,
             w_remote, y, calls, reviewed, channel, sent, delivered, exported>>

config == <<review_strategy, max_iter, n_batches, features, missing>>

\* The operations of HeteroLRBase that raise NotImplementedError("Should not
\* call here") unless the role's class overrides them; "none" when it
\* overrides all three.
MissingOps == {"none", "transfer_pubkey", "cal_prediction", "compute_gradient"}

\* The exception of an operation that is not overridden
ShouldNotCallHere == "NotImplementedError: Should not call here"

\* A variant in which the operations of the base class return silently.
ProvidedAlways(p, op) == TRUE

\* Whether a call of op at party p reaches an implementation of the role's class
Provided(p, op) == missing[p] # op

\* No assignment to n_iter_, is_converged or model_weights yet
NoWrites == [n_iter_ |-> 0, is_converged |-> 0, model_weights |-> 0]

\* Python's None
None == [kind |-> "None"]

\* The logical tensor a party's own weights are: wb at the Guest, wa at the Host.
OwnTensor(p) == IF p = GUEST THEN "wb" ELSE "wa"

\* w = self._init_w(model_shape): party p's initial plaintext weights
InitW(p) ==
    [kind |-> "plain", tensor |-> OwnTensor(p), shape |-> features[p], ver |-> <<-1>>]

\* data_instances.mapValues(lambda x: np.array([x.label]))
LabelsOf(p) == [kind |-> "labels", of |-> p]

\* An additive share of tensor t held by party p
Share(t, p, shape, ver) ==
    [kind |-> "share", tensor |-> t, holder |-> p, shape |-> shape, ver |-> ver]

\* One entry of calls[p]
Call(op, suffix, arg) == [op |-> op, suffix |-> suffix, arg |-> arg]

\* A TransferMessage
Msg(name, suffix, from, to, payload) ==
    [name |-> name, suffix |-> suffix, sender |-> from, recipient |-> to,
     payload |-> payload]

\* The messages on the channel a receive of (name, suffix) by p from the other
\* party can return.
Receivable(p, name, suffix) ==
    {m \in channel : /\ m.name = name
                     /\ m.suffix = suffix
                     /\ m.sender = OtherParty(p)
                     /\ m.recipient = p}

\* The training state before fit_binary is called
InitState ==
    /\ writes = [p \in Party |-> NoWrites]
    /\ pc = [p \in Party |-> "start"]
    /\ raised = [p \in Party |-> "none"]
    /\ n_iter_ = [p \in Party |-> 0]
    /\ batch_idx = [p \in Party |-> 0]
    /\ is_converged = [p \in Party |-> FALSE]
    /\ labels = [p \in Party |-> None]
    /\ hosted_model_weights = [p \in Party |-> None]
    /\ model_weights = [p \in Party |-> None]
    /\ new_w = [p \in Party |-> None]
    /\ last_models = [p \in Party |-> <<None, None>>]
    /\ w_self = [p \in Party |-> None]
    /\ w_remote = [p \in Party |-> None]
    /\ y = [p \in Party |-> None]
    /\ calls = [p \in Party |-> <<>>]
    /\ reviewed = [p \in Party |-> {}]
    /\ channel = {}
    /\ sent = {}
    /\ delivered = {}
    /\ exported = [p \in Party |-> None]

\* No local cache is worked on.
CacheIdle ==
    /\ path_exists = FALSE
    /\ subdirs = {}
    /\ meta = [kind |-> "absent"]
    /\ files = {}
    /\ lock = "free"
    /\ archive = [kind |-> "absent"]
    /\ sha1_file = [kind |-> "absent"]
    /\ cpc = [q \in Procs |-> "idle"]
    /\ cop = [q \in Procs |-> NoOp]
    /\ loaded = [q \in Procs |-> [kind |-> "None"]]
    /\ cerr = [q \in Procs |-> "none"]
    /\ started = 0
    /\ completed = {}

Init ==
    /\ review_strategy \in ReviewStrategies
    /\ max_iter \in 0..MaxIter
    /\ n_batches \in 1..MaxBatches
    /\ features \in [Party -> 1..MaxFeatures]
    /\ missing \in [Party -> MissingOps]
    /\ InitState
    /\ CacheIdle

\* fit_binary up to the call of transfer_pubkey, which raises when the role's
\* class does not override it
FitBinaryStart(p) ==
    /\ pc[p] = "start"
    /\ last_models' = [last_models EXCEPT ![p] = <<InitW(p), hosted_model_weights[p]>>]
    /\ labels' = [labels EXCEPT ![p] = IF p = GUEST THEN LabelsOf(p) ELSE @]
    /\ calls' = [calls EXCEPT ![p] = Append(@, Call("transfer_pubkey", <<>>, None))]
    /\ IF Provided(p, "transfer_pubkey")
       THEN /\ pc' = [pc EXCEPT ![p] = "transfer_pubkey"]
            /\ UNCHANGED raised
       ELSE /\ pc' = [pc EXCEPT ![p] = "failed"]
            /\ raised' = [raised EXCEPT ![p] = ShouldNotCallHere]
    /\ UNCHANGED <<cache_vars, config, exported, writes, n_iter_, batch_idx, is_converged,
                   hosted_model_weights, model_weights, new_w, w_self, w_remote,
                   y, reviewed, channel, sent, delivered>>

\* transfer_pubkey of the role's class: this party's public key goes to the
\* other party (a non-blocking send) ...
TransferPubkeySend(p) ==
    /\ pc[p] = "transfer_pubkey"
    /\ LET m == Msg("pubkey", <<>>, p, OtherParty(p), [kind |-> "pubkey", of |-> p])
       IN  /\ channel' = channel \cup {m}
           /\ sent' = sent \cup {m}
    /\ pc' = [pc EXCEPT ![p] = "remote_pubkey"]
    /\ UNCHANGED <<cache_vars, config, exported, writes, raised, n_iter_, batch_idx, is_converged, labels,
                   hosted_model_weights, model_weights, new_w, last_models,
                   w_self, w_remote, y, calls, reviewed, delivered>>

\* ... and the other party's key is received (remote_pubkey); share_init_model
\* is called next.
TransferPubkeyRecv(p) ==
    /\ pc[p] = "remote_pubkey"
    /\ \E m \in Receivable(p, "pubkey", <<>>) :
           /\ channel' = channel \ {m}
           /\ delivered' = delivered \cup {m}
    /\ calls' = [calls EXCEPT ![p] = Append(@, Call("share_init_model", <<-1>>, None))]
    /\ pc' = [pc EXCEPT ![p] = "share_init_model"]
    /\ UNCHANGED <<cache_vars, config, exported, writes, raised, n_iter_, batch_idx, is_converged, labels,
                   hosted_model_weights, model_weights, new_w, last_models,
                   w_self, w_remote, y, reviewed, sent>>

\* share_init_model, first from_source: source[0] = w, the plaintext this party
\* supplies (wb at the Guest, wa at the Host).  The party keeps one share and
\* sends the other one, tagged with the tensor name, to the other party.
ShareInitModelOwn(p) ==
    /\ pc[p] = "share_init_model"
    /\ LET w == last_models[p][1]
           m == Msg(OwnTensor(p), <<-1>>, p, OtherParty(p),
                    Share(OwnTensor(p), OtherParty(p), w.shape, <<-1>>))
       IN  /\ w_self' = [w_self EXCEPT ![p] = Share(OwnTensor(p), p, w.shape, <<-1>>)]
           /\ channel' = channel \cup {m}
           /\ sent' = sent \cup {m}
    /\ pc' = [pc EXCEPT ![p] = "share_init_model_remote"]
    /\ UNCHANGED <<cache_vars, config, exported, writes, raised, n_iter_, batch_idx, is_converged, labels,
                   hosted_model_weights, model_weights, new_w, last_models,
                   w_remote, y, calls, reviewed, delivered>>

\* A variant in which a party names the other party as the source of its own
\* tensor as well.
ShareInitModelRemoteOwnName(p) ==
    /\ pc[p] = "share_init_model_remote"
    /\ \E m \in Receivable(p, OwnTensor(p), <<-1>>) :
           /\ w_remote' = [w_remote EXCEPT ![p] = m.payload]
           /\ channel' = channel \ {m}
           /\ delivered' = delivered \cup {m}
    /\ pc' = [pc EXCEPT ![p] = "while"]
    /\ UNCHANGED <<cache_vars, config, exported, writes, raised, n_iter_, batch_idx, is_converged, labels,
                   hosted_model_weights, model_weights, new_w, last_models,
                   w_self, y, calls, reviewed, sent>>

\* share_init_model, second from_source: source[1] = self.other_party supplies
\* the plaintext (wa at the Guest, wb at the Host); this party receives its
\* share.  The while loop is entered next.
ShareInitModelRemote(p) ==
    /\ pc[p] = "share_init_model_remote"
    /\ \E m \in Receivable(p, OwnTensor(OtherParty(p)), <<-1>>) :
           /\ w_remote' = [w_remote EXCEPT ![p] = m.payload]
           /\ channel' = channel \ {m}
           /\ delivered' = delivered \cup {m}
    /\ pc' = [pc EXCEPT ![p] = "while"]
    /\ UNCHANGED <<cache_vars, config, exported, writes, raised, n_iter_, batch_idx, is_converged, labels,
                   hosted_model_weights, model_weights, new_w, last_models,
                   w_self, y, calls, reviewed, sent>>

\* A variant of current_suffix that leaves the batch index out.
CurrentSuffixNoBatch(p) == <<n_iter_[p], 0>>

\* current_suffix = (self.n_iter_, batch_idx)
CurrentSuffix(p) == <<n_iter_[p], batch_idx[p]>>

\* A variant of the loop test that admits one iteration more.
WhileTestInclusive(p) ==
    /\ pc[p] = "while"
    /\ IF n_iter_[p] <= max_iter
       THEN /\ batch_idx' = [batch_idx EXCEPT ![p] = 0]
            /\ writes' = [writes EXCEPT ![p] = NoWrites]
            /\ pc' = [pc EXCEPT ![p] = "for"]
       ELSE /\ pc' = [pc EXCEPT ![p] = "done"]
            /\ UNCHANGED <<batch_idx, writes>>
    /\ UNCHANGED <<cache_vars, config, exported, raised, n_iter_, is_converged, labels,
                   hosted_model_weights, model_weights, new_w, last_models,
                   w_self, w_remote, y, calls, reviewed, channel, sent, delivered>>

\* while self.n_iter_ < self.max_iter: enter the for loop, or return
WhileTest(p) ==
    /\ pc[p] = "while"
    /\ IF n_iter_[p] < max_iter
       THEN /\ batch_idx' = [batch_idx EXCEPT ![p] = 0]
            /\ writes' = [writes EXCEPT ![p] = NoWrites]
            /\ pc' = [pc EXCEPT ![p] = "for"]
       ELSE /\ pc' = [pc EXCEPT ![p] = "done"]
            /\ UNCHANGED <<batch_idx, writes>>
    /\ UNCHANGED <<cache_vars, config, exported, raised, n_iter_, is_converged, labels,
                   hosted_model_weights, model_weights, new_w, last_models,
                   w_self, w_remote, y, calls, reviewed, channel, sent, delivered>>

\* A variant of the batch loop that runs one batch step more.
MoreBatchesInclusive(p) == batch_idx[p] <= n_batches

\* Whether enumerate(encoded_batch_data) yields another batch
MoreBatches(p) == batch_idx[p] < n_batches

\* for batch_idx, batch_data in enumerate(encoded_batch_data): the next batch
\* calls cal_prediction with current_suffix, which raises when the role's class
\* does not override it; after the last batch check_converge is called.
ForTest(p) ==
    /\ pc[p] = "for"
    /\ IF MoreBatches(p)
       THEN /\ calls' = [calls EXCEPT ![p] =
                            Append(@, Call("cal_prediction", CurrentSuffix(p), None))]
            /\ IF Provided(p, "cal_prediction")
               THEN /\ pc' = [pc EXCEPT ![p] = "cal_prediction"]
                    /\ UNCHANGED raised
               ELSE /\ pc' = [pc EXCEPT ![p] = "failed"]
                    /\ raised' = [raised EXCEPT ![p] = ShouldNotCallHere]
       ELSE /\ pc' = [pc EXCEPT ![p] = "check_converge"]
            /\ UNCHANGED <<calls, raised>>
    /\ UNCHANGED <<cache_vars, config, exported, writes, n_iter_, batch_idx, is_converged, labels,
                   hosted_model_weights, model_weights, new_w, last_models,
                   w_self, w_remote, y, reviewed, channel, sent, delivered>>

\* What cal_prediction returns for a suffix: this party's share of the prediction
Prediction(p, suffix) == Share("y", p, 0, suffix)

\* A variant of the Guest's result that holds three different terms.
ShareZReturnPowers(res) ==
    <<res[1], [res[1] EXCEPT !.of = "z_square"], [res[1] EXCEPT !.of = "z_cube"]>>

\* What share_z returns at the Guest for the list res of received terms:
\* return res[0], res[0], res[0]
ShareZReturn(res) == <<res[1], res[1], res[1]>>

\* share_z at the Host, inside cal_prediction: the encrypted z goes to the
\* Guest tagged ("z",) + suffix and share_z returns nothing (logged as a
\* share_z entry with the returned value); cal_prediction then returns y.
ShareZHost(p) ==
    /\ pc[p] = "cal_prediction"
    /\ p = HOST
    /\ LET m == Msg("z", CurrentSuffix(p), p, GUEST,
                    [kind |-> "cipher", of |-> "z", ver |-> CurrentSuffix(p)])
       IN  /\ channel' = channel \cup {m}
           /\ sent' = sent \cup {m}
    /\ calls' = [calls EXCEPT ![p] = Append(@, Call("share_z", CurrentSuffix(p), None))]
    /\ y' = [y EXCEPT ![p] = Prediction(p, CurrentSuffix(p))]
    /\ pc' = [pc EXCEPT ![p] = "error"]
    /\ UNCHANGED <<cache_vars, config, exported, writes, raised, n_iter_, batch_idx, is_converged, labels,
                   hosted_model_weights, model_weights, new_w, last_models,
                   w_self, w_remote, reviewed, delivered>>

\* share_z at the Guest, inside cal_prediction: the Host's z with the tag
\* ("z",) + suffix is received and share_z returns it three times (logged as
\* a share_z entry with the returned value); cal_prediction then returns y.
ShareZGuest(p) ==
    /\ pc[p] = "cal_prediction"
    /\ p = GUEST
    /\ \E m \in Receivable(p, "z", CurrentSuffix(p)) :
           /\ channel' = channel \ {m}
           /\ delivered' = delivered \cup {m}
           /\ calls' = [calls EXCEPT ![p] = Append(@,
                           Call("share_z", CurrentSuffix(p), ShareZReturn(<<m.payload>>)))]
    /\ y' = [y EXCEPT ![p] = Prediction(p, CurrentSuffix(p))]
    /\ pc' = [pc EXCEPT ![p] = "error"]
    /\ UNCHANGED <<cache_vars, config, exported, writes, raised, n_iter_, batch_idx, is_converged, labels,
                   hosted_model_weights, model_weights, new_w, last_models,
                   w_self, w_remote, reviewed, sent>>

\* A variant of the error argument without the test of the role.
ErrorArgNoRoleTest(p) ==
    [kind |-> "from_value",
     of |-> [kind |-> "sub", minuend |-> y[p], subtrahend |-> labels[p]]]

\* The error argument of compute_gradient: at the Guest the plaintext
\* y.value - labels re-wrapped by FixedPointTensor.from_value, at the Host y.
ErrorArg(p) ==
    IF p = GUEST
    THEN [kind |-> "from_value",
          of |-> [kind |-> "sub", minuend |-> y[p], subtrahend |-> labels[p]]]
    ELSE y[p]

\* What compute_gradient returns for a share: the share of the same tensor
\* after this batch step's update
Updated(share, suffix) == [share EXCEPT !.ver = suffix]

\* A variant in which the Guest unpacks the pair in the Host's order.
UnpackedSameOrder(p, res) == [w_self |-> res[1], w_remote |-> res[2]]

\* The targets of compute_gradient's result (wa', wb'): the Guest assigns
\* w_remote, w_self = ..., the Host w_self, w_remote = ...
Unpacked(p, res) ==
    IF p = GUEST
    THEN [w_self |-> res[2], w_remote |-> res[1]]
    ELSE [w_self |-> res[1], w_remote |-> res[2]]

\* compute_gradient with its role's keyword arguments, the assignment of its
\* result (wa', wb') to (w_remote, w_self) at the Guest and (w_self, w_remote)
\* at the Host, and the call of review_models; compute_gradient raises when
\* the role's class does not override it.
ComputeGradient(p) ==
    /\ pc[p] = "error"
    /\ IF Provided(p, "compute_gradient")
       THEN /\ calls' = [calls EXCEPT ![p] =
                    Append(Append(@, Call("compute_gradient", CurrentSuffix(p), ErrorArg(p))),
                           Call("review_models", CurrentSuffix(p), None))]
            /\ LET wa == IF p = GUEST THEN w_remote[p] ELSE w_self[p]
                   wb == IF p = GUEST THEN w_self[p] ELSE w_remote[p]
                   res == <<Updated(wa, CurrentSuffix(p)), Updated(wb, CurrentSuffix(p))>>
               IN  /\ w_self' = [w_self EXCEPT ![p] = Unpacked(p, res).w_self]
                   /\ w_remote' = [w_remote EXCEPT ![p] = Unpacked(p, res).w_remote]
            /\ pc' = [pc EXCEPT ![p] = "review_models"]
            /\ UNCHANGED raised
       ELSE /\ calls' = [calls EXCEPT ![p] =
                    Append(@, Call("compute_gradient", CurrentSuffix(p), ErrorArg(p)))]
            /\ pc' = [pc EXCEPT ![p] = "failed"]
            /\ raised' = [raised EXCEPT ![p] = ShouldNotCallHere]
            /\ UNCHANGED <<w_self, w_remote>>
    /\ UNCHANGED <<cache_vars, config, exported, writes, n_iter_, batch_idx, is_converged, labels,
                   hosted_model_weights, model_weights, new_w, last_models,
                   y, reviewed, channel, sent, delivered>>

\* The suffix of the tensor names f"wb_{self.n_iter_}" / f"wa_{self.n_iter_}"
\* review_models gives to reconstruct_unilateral and broadcast_reconstruct_share
ReviewSuffix(p) == <<n_iter_[p]>>

\* reconstruct_unilateral: the caller adds the share it received to its own
\* share of the tensor and decodes the sum
Reconstruct(own, received) ==
    IF /\ own.kind = "share"
       /\ received.kind = "share"
       /\ own.tensor = received.tensor
       /\ own.holder # received.holder
    THEN [kind |-> "plain", tensor |-> own.tensor, shape |-> own.shape, ver |-> own.ver]
    ELSE [kind |-> "garbage"]

\* np.zeros(shape)
Zeros(shape) == [kind |-> "zeros", shape |-> shape]

\* LinearModelWeights(l=..., fit_intercept=...)
LinearModelWeights(l) == [kind |-> "LinearModelWeights", l |-> l]

\* The bound of the guard of review_models
ReviewShapeBound == 2

\* A variant of the guard that tests the Host's own shard.
GuardFailsHostShard(p) == w_self[p].shape > ReviewShapeBound

\* if w_remote.shape[0] > 2 (the Host under "all_review_in_guest")
GuardFails(p) == w_remote[p].shape > ReviewShapeBound

\* review_models, "respectively", Guest: reconstruct_unilateral of w_self with
\* wb_<n_iter_> (blocks until the Host's share is there), then
\* broadcast_reconstruct_share of w_remote with wa_<n_iter_>; model_weights is
\* set and new_w returned; fit_binary sets model_weights again.
ReviewRespectivelyGuest(p) ==
    /\ pc[p] = "review_models"
    /\ review_strategy = "respectively"
    /\ p = GUEST
    /\ \E m \in Receivable(p, "wb", ReviewSuffix(p)) :
          LET out == Msg("wa", ReviewSuffix(p), p, OtherParty(p), w_remote[p])
              w == Reconstruct(w_self[p], m.payload)
          IN  /\ new_w' = [new_w EXCEPT ![p] = w]
              /\ model_weights' = [model_weights EXCEPT ![p] = LinearModelWeights(w)]
              /\ writes' = [writes EXCEPT ![p].model_weights = @ + 2]
              /\ channel' = (channel \ {m}) \cup {out}
              /\ delivered' = delivered \cup {m}
              /\ sent' = sent \cup {out}
    /\ reviewed' = [reviewed EXCEPT ![p] = @ \cup {CurrentSuffix(p)}]
    /\ batch_idx' = [batch_idx EXCEPT ![p] = @ + 1]
    /\ pc' = [pc EXCEPT ![p] = "for"]
    /\ UNCHANGED <<cache_vars, config, exported, raised, n_iter_, is_converged, labels,
                   hosted_model_weights, last_models, w_self, w_remote, y, calls>>

\* A variant of the Host's first step that broadcasts w_self instead of w_remote.
ReviewRespectivelyHostSendOwnShare(p) ==
    /\ pc[p] = "review_models"
    /\ review_strategy = "respectively"
    /\ p = HOST
    /\ LET out == Msg("wb", ReviewSuffix(p), p, OtherParty(p), w_self[p])
       IN  /\ channel' = channel \cup {out}
           /\ sent' = sent \cup {out}
    /\ pc' = [pc EXCEPT ![p] = "review_reconstruct"]
    /\ UNCHANGED <<cache_vars, config, exported, writes, raised, n_iter_, batch_idx, is_converged, labels,
                   hosted_model_weights, model_weights, new_w, last_models,
                   w_self, w_remote, y, calls, reviewed, delivered>>

\* A variant in which the Host reconstructs before it broadcasts: its share
\* of wb goes out only once the Guest's share of wa has arrived.
ReviewRespectivelyHostRecvFirst(p) ==
    /\ pc[p] = "review_models"
    /\ review_strategy = "respectively"
    /\ p = HOST
    /\ Receivable(p, "wa", ReviewSuffix(p)) # {}
    /\ LET out == Msg("wb", ReviewSuffix(p), p, OtherParty(p), w_remote[p])
       IN  /\ channel' = channel \cup {out}
           /\ sent' = sent \cup {out}
    /\ pc' = [pc EXCEPT ![p] = "review_reconstruct"]
    /\ UNCHANGED <<cache_vars, config, exported, writes, raised, n_iter_, batch_idx, is_converged, labels,
                   hosted_model_weights, model_weights, new_w, last_models,
                   w_self, w_remote, y, calls, reviewed, delivered>>

\* review_models, "respectively", Host: broadcast_reconstruct_share of
\* w_remote with wb_<n_iter_> ...
ReviewRespectivelyHostSend(p) ==
    /\ pc[p] = "review_models"
    /\ review_strategy = "respectively"
    /\ p = HOST
    /\ LET out == Msg("wb", ReviewSuffix(p), p, OtherParty(p), w_remote[p])
       IN  /\ channel' = channel \cup {out}
           /\ sent' = sent \cup {out}
    /\ pc' = [pc EXCEPT ![p] = "review_reconstruct"]
    /\ UNCHANGED <<cache_vars, config, exported, writes, raised, n_iter_, batch_idx, is_converged, labels,
                   hosted_model_weights, model_weights, new_w, last_models,
                   w_self, w_remote, y, calls, reviewed, delivered>>

\* A variant that shares the disclosed weights anew (share_init_model of new_w
\* with n_iter = n_iter_) at the end of the batch step.
ReviewRespectivelyHostRecvReshare(p) ==
    /\ pc[p] = "review_reconstruct"
    /\ \E m \in Receivable(p, "wa", ReviewSuffix(p)) :
          LET w == Reconstruct(w_self[p], m.payload)
          IN  /\ new_w' = [new_w EXCEPT ![p] = w]
              /\ model_weights' = [model_weights EXCEPT ![p] = LinearModelWeights(w)]
              /\ writes' = [writes EXCEPT ![p].model_weights = @ + 2]
              /\ w_self' = [w_self EXCEPT ![p] =
                               Share(OwnTensor(p), p, w.shape, ReviewSuffix(p))]
              /\ channel' = channel \ {m}
              /\ delivered' = delivered \cup {m}
    /\ reviewed' = [reviewed EXCEPT ![p] = @ \cup {CurrentSuffix(p)}]
    /\ batch_idx' = [batch_idx EXCEPT ![p] = @ + 1]
    /\ pc' = [pc EXCEPT ![p] = "for"]
    /\ UNCHANGED <<cache_vars, config, exported, raised, n_iter_, is_converged, labels,
                   hosted_model_weights, last_models, w_remote, y, calls, sent>>

\* ... then reconstruct_unilateral of w_self with wa_<n_iter_> (blocks until
\* the Guest's share is there); model_weights is set and new_w returned.
ReviewRespectivelyHostRecv(p) ==
    /\ pc[p] = "review_reconstruct"
    /\ \E m \in Receivable(p, "wa", ReviewSuffix(p)) :
          LET w == Reconstruct(w_self[p], m.payload)
          IN  /\ new_w' = [new_w EXCEPT ![p] = w]
              /\ model_weights' = [model_weights EXCEPT ![p] = LinearModelWeights(w)]
              /\ writes' = [writes EXCEPT ![p].model_weights = @ + 2]
              /\ channel' = channel \ {m}
              /\ delivered' = delivered \cup {m}
    /\ reviewed' = [reviewed EXCEPT ![p] = @ \cup {CurrentSuffix(p)}]
    /\ batch_idx' = [batch_idx EXCEPT ![p] = @ + 1]
    /\ pc' = [pc EXCEPT ![p] = "for"]
    /\ UNCHANGED <<cache_vars, config, exported, raised, n_iter_, is_converged, labels,
                   hosted_model_weights, last_models, w_self, w_remote, y, calls,
                   sent>>

\* review_models, "all_review_in_guest", Guest: reconstruct_unilateral of
\* w_self with wb_<n_iter_> ...
ReviewAllGuestOwn(p) ==
    /\ pc[p] = "review_models"
    /\ review_strategy = "all_review_in_guest"
    /\ p = GUEST
    /\ \E m \in Receivable(p, "wb", ReviewSuffix(p)) :
          /\ new_w' = [new_w EXCEPT ![p] = Reconstruct(w_self[p], m.payload)]
          /\ channel' = channel \ {m}
          /\ delivered' = delivered \cup {m}
    /\ pc' = [pc EXCEPT ![p] = "review_hosted"]
    /\ UNCHANGED <<cache_vars, config, exported, writes, raised, n_iter_, batch_idx, is_converged, labels,
                   hosted_model_weights, model_weights, last_models, w_self,
                   w_remote, y, calls, reviewed, sent>>

\* ... then reconstruct_unilateral of w_remote with wa_<n_iter_>, stored as
\* hosted_model_weights; model_weights is set and new_w returned.
ReviewAllGuestHosted(p) ==
    /\ pc[p] = "review_hosted"
    /\ \E m \in Receivable(p, "wa", ReviewSuffix(p)) :
          /\ hosted_model_weights' = [hosted_model_weights EXCEPT ![p] =
                 LinearModelWeights(Reconstruct(w_remote[p], m.payload))]
          /\ channel' = channel \ {m}
          /\ delivered' = delivered \cup {m}
    /\ model_weights' = [model_weights EXCEPT ![p] = LinearModelWeights(new_w[p])]
    /\ writes' = [writes EXCEPT ![p].model_weights = @ + 2]
    /\ reviewed' = [reviewed EXCEPT ![p] = @ \cup {CurrentSuffix(p)}]
    /\ batch_idx' = [batch_idx EXCEPT ![p] = @ + 1]
    /\ pc' = [pc EXCEPT ![p] = "for"]
    /\ UNCHANGED <<cache_vars, config, exported, raised, n_iter_, is_converged, labels, new_w,
                   last_models, w_self, w_remote, y, calls, sent>>

\* A variant of the Host's new_w with the shape of the other shard.
HostNewWRemoteShape(p) == Zeros(w_remote[p].shape)

\* new_w = np.zeros(w_self.shape) at the Host under "all_review_in_guest"
HostNewW(p) == Zeros(w_self[p].shape)

\* A variant that sends the first share before it tests the guard.
ReviewAllHostGuardLate(p) ==
    /\ pc[p] = "review_models"
    /\ review_strategy = "all_review_in_guest"
    /\ p = HOST
    /\ LET out1 == Msg("wb", ReviewSuffix(p), p, OtherParty(p), w_remote[p])
           out2 == Msg("wa", ReviewSuffix(p), p, OtherParty(p), w_self[p])
       IN  IF GuardFails(p)
           THEN /\ raised' = [raised EXCEPT ![p] = "ValueError"]
                /\ pc' = [pc EXCEPT ![p] = "failed"]
                /\ channel' = channel \cup {out1}
                /\ sent' = sent \cup {out1}
                /\ UNCHANGED <<new_w, model_weights, writes, reviewed, batch_idx>>
           ELSE /\ channel' = channel \cup {out1, out2}
                /\ sent' = sent \cup {out1, out2}
                /\ new_w' = [new_w EXCEPT ![p] = HostNewW(p)]
                /\ model_weights' = [model_weights EXCEPT ![p] =
                                        LinearModelWeights(HostNewW(p))]
                /\ writes' = [writes EXCEPT ![p].model_weights = @ + 2]
                /\ reviewed' = [reviewed EXCEPT ![p] = @ \cup {CurrentSuffix(p)}]
                /\ batch_idx' = [batch_idx EXCEPT ![p] = @ + 1]
                /\ pc' = [pc EXCEPT ![p] = "for"]
                /\ UNCHANGED raised
    /\ UNCHANGED <<cache_vars, config, exported, n_iter_, is_converged, labels, hosted_model_weights,
                   last_models, w_self, w_remote, y, calls, delivered>>

\* review_models, "all_review_in_guest", Host: the guard raises ValueError;
\* otherwise broadcast_reconstruct_share of w_remote with wb_<n_iter_> and of
\* w_self with wa_<n_iter_> (two non-blocking sends), new_w is a zero vector,
\* model_weights is set and new_w returned.
ReviewAllHost(p) ==
    /\ pc[p] = "review_models"
    /\ review_strategy = "all_review_in_guest"
    /\ p = HOST
    /\ IF GuardFails(p)
       THEN /\ raised' = [raised EXCEPT ![p] = "ValueError"]
            /\ pc' = [pc EXCEPT ![p] = "failed"]
            /\ UNCHANGED <<new_w, model_weights, writes, reviewed, batch_idx,
                           channel, sent>>
       ELSE /\ LET out1 == Msg("wb", ReviewSuffix(p), p, OtherParty(p), w_remote[p])
                   out2 == Msg("wa", ReviewSuffix(p), p, OtherParty(p), w_self[p])
               IN  /\ channel' = channel \cup {out1, out2}
                   /\ sent' = sent \cup {out1, out2}
            /\ new_w' = [new_w EXCEPT ![p] = HostNewW(p)]
            /\ model_weights' = [model_weights EXCEPT ![p] =
                                    LinearModelWeights(HostNewW(p))]
            /\ writes' = [writes EXCEPT ![p].model_weights = @ + 2]
            /\ reviewed' = [reviewed EXCEPT ![p] = @ \cup {CurrentSuffix(p)}]
            /\ batch_idx' = [batch_idx EXCEPT ![p] = @ + 1]
            /\ pc' = [pc EXCEPT ![p] = "for"]
            /\ UNCHANGED raised
    /\ UNCHANGED <<cache_vars, config, exported, n_iter_, is_converged, labels, hosted_model_weights,
                   last_models, w_self, w_remote, y, calls, delivered>>

\* review_models with any other review_strategy: NotImplementedError
ReviewNotImplemented(p) ==
    /\ pc[p] = "review_models"
    /\ review_strategy \notin {"respectively", "all_review_in_guest"}
    /\ raised' = [raised EXCEPT ![p] = "NotImplementedError"]
    /\ pc' = [pc EXCEPT ![p] = "failed"]
    /\ UNCHANGED <<cache_vars, config, exported, writes, n_iter_, batch_idx, is_converged, labels,
                   hosted_model_weights, model_weights, new_w, last_models,
                   w_self, w_remote, y, calls, reviewed, channel, sent, delivered>>

\* A variant that keeps last_models as it was.
NextLastModelsStale(p) == last_models[p]

\* last_models = [new_w, copy.deepcopy(self.hosted_model_weights)]
NextLastModels(p) == <<new_w[p], hosted_model_weights[p]>>

\* A variant of the end of the while body that does not break on convergence.
CheckConvergeNoBreak(p) ==
    /\ pc[p] = "check_converge"
    /\ \E c \in BOOLEAN : is_converged' = [is_converged EXCEPT ![p] = c]
    /\ writes' = [writes EXCEPT ![p].is_converged = @ + 1, ![p].n_iter_ = @ + 1]
    /\ calls' = [calls EXCEPT ![p] = Append(@,
                    Call("check_converge", <<n_iter_[p]>>,
                         [last_w |-> last_models[p], new_w |-> new_w[p]]))]
    /\ last_models' = [last_models EXCEPT ![p] = NextLastModels(p)]
    /\ n_iter_' = [n_iter_ EXCEPT ![p] = @ + 1]
    /\ pc' = [pc EXCEPT ![p] = "while"]
    /\ UNCHANGED <<cache_vars, config, exported, raised, batch_idx, labels, hosted_model_weights,
                   model_weights, new_w, w_self, w_remote, y, reviewed, channel,
                   sent, delivered>>

\* The end of the while body: is_converged = check_converge(last_models, new_w,
\* (n_iter_,)), whose result is either boolean; last_models is replaced; the
\* loop breaks when converged, else n_iter_ += 1.
CheckConverge(p) ==
    /\ pc[p] = "check_converge"
    /\ calls' = [calls EXCEPT ![p] = Append(@,
                    Call("check_converge", <<n_iter_[p]>>,
                         [last_w |-> last_models[p], new_w |-> new_w[p]]))]
    /\ last_models' = [last_models EXCEPT ![p] = NextLastModels(p)]
    /\ \E c \in BOOLEAN :
          /\ is_converged' = [is_converged EXCEPT ![p] = c]
          /\ IF c
             THEN /\ writes' = [writes EXCEPT ![p].is_converged = @ + 1]
                  /\ pc' = [pc EXCEPT ![p] = "done"]
                  /\ UNCHANGED n_iter_
             ELSE /\ n_iter_' = [n_iter_ EXCEPT ![p] = @ + 1]
                  /\ writes' = [writes EXCEPT ![p].is_converged = @ + 1,
                                              ![p].n_iter_ = @ + 1]
                  /\ pc' = [pc EXCEPT ![p] = "while"]
    /\ UNCHANGED <<cache_vars, config, exported, raised, batch_idx, labels, hosted_model_weights,
                   model_weights, new_w, w_self, w_remote, y, reviewed, channel,
                   sent, delivered>>

\* The tag of the message party p's blocking receive waits for, if p is at one
Awaited(p) ==
    IF pc[p] = "remote_pubkey"
    THEN {[name |-> "pubkey", suffix |-> <<>>]}
    ELSE IF pc[p] = "share_init_model_remote"
    THEN {[name |-> OwnTensor(OtherParty(p)), suffix |-> <<-1>>]}
    ELSE IF pc[p] = "cal_prediction" /\ p = GUEST
    THEN {[name |-> "z", suffix |-> CurrentSuffix(p)]}
    ELSE IF /\ pc[p] = "review_models"
            /\ p = GUEST
            /\ review_strategy \in {"respectively", "all_review_in_guest"}
    THEN {[name |-> "wb", suffix |-> ReviewSuffix(p)]}
    ELSE IF pc[p] \in {"review_reconstruct", "review_hosted"}
    THEN {[name |-> "wa", suffix |-> ReviewSuffix(p)]}
    ELSE {}

\* Party p is blocked: it is at a receive whose message is not in the channel
Blocked(p) == \E a \in Awaited(p) : Receivable(p, a.name, a.suffix) = {}

\* A variant that counts the iteration that was running when the loop ended.
SingleModelParamNextIter(p) ==
    [kind |-> "result", iters |-> n_iter_[p] + 1, is_converged |-> is_converged[p],
     intercept |-> model_weights[p].l]

\* The result of get_single_model_param: 'iters', 'is_converged' and the
\* intercept read from self.model_weights
SingleModelParam(p) ==
    [kind |-> "result", iters |-> n_iter_[p], is_converged |-> is_converged[p],
     intercept |-> model_weights[p].l]

\* get_single_model_param after fit_binary has returned; reading intercept_ of
\* a model_weights that was never set (None) is an AttributeError.
GetSingleModelParam(p) ==
    /\ pc[p] = "done"
    /\ exported[p] = None
    /\ exported' = [exported EXCEPT ![p] =
                       IF model_weights[p] = None
                       THEN [kind |-> "AttributeError"]
                       ELSE SingleModelParam(p)]
    /\ UNCHANGED <<cache_vars, config, writes, pc, raised, n_iter_, batch_idx, is_converged,
                   labels, hosted_model_weights, model_weights, new_w, last_models,
                   w_self, w_remote, y, calls, reviewed, channel, sent, delivered>>

\* One step of party p's fit_binary, or of what follows it
Step(p) ==
        \/ FitBinaryStart(p)
        \/ TransferPubkeySend(p)
        \/ TransferPubkeyRecv(p)
        \/ ShareInitModelOwn(p)
        \/ ShareInitModelRemote(p)
        \/ WhileTest(p)
        \/ ForTest(p)
        \/ ShareZHost(p)
        \/ ShareZGuest(p)
        \/ ComputeGradient(p)
        \/ ReviewRespectivelyGuest(p)
        \/ ReviewRespectivelyHostSend(p)
        \/ ReviewRespectivelyHostRecv(p)
        \/ ReviewAllGuestOwn(p)
        \/ ReviewAllGuestHosted(p)
        \/ ReviewAllHost(p)
        \/ ReviewNotImplemented(p)
        \/ CheckConverge(p)
        \/ GetSingleModelParam(p)

\* Guest and Host run fit_binary concurrently.
Next == \E p \in Party : Step(p)

Spec == Init /\ [][Next]_vars

\* Each party's process keeps running: a step that stays possible is taken.
SpecFair == Spec /\ \A p \in Party : WF_vars(Step(p))

\* A variant in which only the receives of review_models are bounded by the
\* timeout.
ReceiveTimeoutReviewOnly(p) ==
    /\ Blocked(p)
    /\ pc[p] \in {"review_models", "review_reconstruct", "review_hosted"}
    /\ raised' = [raised EXCEPT ![p] = "TransferTimeout"]
    /\ pc' = [pc EXCEPT ![p] = "failed"]
    /\ UNCHANGED <<cache_vars, config, exported, writes, n_iter_, batch_idx, is_converged, labels,
                   hosted_model_weights, model_weights, new_w, last_models,
                   w_self, w_remote, y, calls, reviewed, channel, sent, delivered>>

\* The per-run timeout of a blocking receive: a party whose awaited message has
\* not arrived is released with an error and its run fails.
ReceiveTimeout(p) ==
    /\ Blocked(p)
    /\ raised' = [raised EXCEPT ![p] = "TransferTimeout"]
    /\ pc' = [pc EXCEPT ![p] = "failed"]
    /\ UNCHANGED <<cache_vars, config, exported, writes, n_iter_, batch_idx, is_converged, labels,
                   hosted_model_weights, model_weights, new_w, last_models,
                   w_self, w_remote, y, calls, reviewed, channel, sent, delivered>>

\* The training of both parties with receives bounded by the timeout
NextTimeout ==
    \/ Next
    \/ \E p \in Party : ReceiveTimeout(p)

\* A blocked receive does not outlast its timeout.
SpecTimeout ==
    /\ Init
    /\ [][NextTimeout]_vars
    /\ \A p \in Party : WF_vars(ReceiveTimeout(p))

(***************************************************************************)
(* Properties                                                              *)
(***************************************************************************)

\* The messages review_models sent: tensor names wa_<n> / wb_<n> with n >= 0
\* (share_init_model uses n = -1).
ReviewMessages(msgs) ==
    {m \in msgs : m.name \in {"wa", "wb"} /\ m.suffix[1] >= 0}

SameTag(m1, m2) ==
    /\ m1.name = m2.name
    /\ m1.suffix = m2.suffix
    /\ m1.sender = m2.sender
    /\ m1.recipient = m2.recipient

\* C1: every tag (tensor name wa_<n_iter_> / wb_<n_iter_>, sender, recipient)
\* review_models uses is used at most once in a run; two batches of one
\* iteration never use the same review tag.
C1_ReviewTagsUsedOnce ==
    \A m1, m2 \in ReviewMessages(sent) : SameTag(m1, m2) => m1 = m2

\* The cal_prediction and compute_gradient calls of a party, in order
BatchCalls(p) ==
    SelectSeq(calls[p], LAMBDA c : c.op \in {"cal_prediction", "compute_gradient"})

LexLess(a, b) == a[1] < b[1] \/ (a[1] = b[1] /\ a[2] < b[2])

\* C2: the suffix (n_iter_, batch_idx) given to cal_prediction and
\* compute_gradient is strictly increasing in lexicographic order from one
\* batch step to the next, is never used for two batch steps, and is the same
\* for the two calls of one batch step.
C2_SuffixIncreasing ==
    \A p \in Party :
        LET s == BatchCalls(p)
        IN  \A i \in 1..Len(s) :
               /\ s[i].op = (IF i % 2 = 1 THEN "cal_prediction" ELSE "compute_gradient")
               /\ (i % 2 = 0) => s[i].suffix = s[i - 1].suffix
               /\ (i % 2 = 1 /\ i > 2) => LexLess(s[i - 2].suffix, s[i].suffix)
               /\ \A j \in 1..Len(s) :
                     (i % 2 = 1 /\ j % 2 = 1 /\ i # j) => s[i].suffix # s[j].suffix

\* C2 witness: a party has made the calls of three batch steps, the second in
\* the same iteration as the first and the third in the next iteration.
C2_Witness ==
    \E p \in Party :
        LET s == BatchCalls(p)
        IN  /\ Len(s) >= 6
            /\ s[3].suffix[1] = s[1].suffix[1]
            /\ s[5].suffix[1] # s[3].suffix[1]

C4_RespectivelyDisclosure ==
    review_strategy = "respectively" =>
        /\ \A m \in ReviewMessages(delivered) :
              /\ m.payload.kind = "share"
              /\ m.payload.holder = m.sender
              /\ m.payload.tensor = OwnTensor(m.recipient)
              /\ m.name = OwnTensor(m.recipient)
        /\ \A p \in Party :
              /\ new_w[p] # None =>
                    (new_w[p].kind = "plain" /\ new_w[p].tensor = OwnTensor(p))
              /\ hosted_model_weights[p] = None
        /\ \A m \in sent : m.payload.kind \in {"share", "pubkey", "cipher"}

\* C4 witness: under "respectively" both parties have returned from two review
\* steps with a disclosed weight vector.
C4_Witness ==
    /\ review_strategy = "respectively"
    /\ \A p \in Party : Cardinality(reviewed[p]) >= 2 /\ new_w[p] # None

\* C5: under "all_review_in_guest" with the guard passing, the Guest
\* reconstructs wb as new_w / model_weights and wa as hosted_model_weights; the
\* Host only sends shares, receives nothing in review, never sets
\* hosted_model_weights, and its new_w is the zero vector of the shape of its
\* own shard.
C5_AllReviewInGuest ==
    (review_strategy = "all_review_in_guest" /\ raised[HOST] # "ValueError") =>
        /\ reviewed[GUEST] # {} =>
              /\ new_w[GUEST].kind = "plain" /\ new_w[GUEST].tensor = "wb"
              /\ model_weights[GUEST].l.kind = "plain"
              /\ model_weights[GUEST].l.tensor = "wb"
              /\ pc[GUEST] # "review_hosted" =>
                    model_weights[GUEST] = LinearModelWeights(new_w[GUEST])
              /\ hosted_model_weights[GUEST].kind = "LinearModelWeights"
              /\ hosted_model_weights[GUEST].l.kind = "plain"
              /\ hosted_model_weights[GUEST].l.tensor = "wa"
        /\ \A m \in ReviewMessages(sent) : m.sender = HOST /\ m.payload.kind = "share"
        /\ \A m \in ReviewMessages(delivered) : m.recipient = GUEST
        /\ hosted_model_weights[HOST] = None
        /\ reviewed[HOST] # {} =>
              /\ new_w[HOST] = [kind |-> "zeros", shape |-> features[HOST]]
              /\ model_weights[HOST] = LinearModelWeights(new_w[HOST])

\* C5 witness: both parties have returned from a review step under
\* "all_review_in_guest", and their shards differ in length.
C5_Witness ==
    /\ review_strategy = "all_review_in_guest"
    /\ reviewed[GUEST] # {}
    /\ reviewed[HOST] # {}
    /\ features[HOST] # features[GUEST]

\* The Host has called review_models and is past its guard
HostPastGuard ==
    /\ \E k \in 1..Len(calls[HOST]) : calls[HOST][k].op = "review_models"
    /\ pc[HOST] # "review_models"

C7_NoDisclosureBeforeGuard ==
    (review_strategy = "all_review_in_guest" /\ features[GUEST] > 2) =>
        /\ ReviewMessages(sent) = {}
        /\ ReviewMessages(channel) = {}
        /\ ReviewMessages(delivered) = {}
        /\ \A p \in Party :
              /\ new_w[p] = None
              /\ model_weights[p] = None
              /\ hosted_model_weights[p] = None

\* C7 witness: the Host has raised the guard error while the Guest waits in
\* review_models.
C7_Witness ==
    /\ review_strategy = "all_review_in_guest"
    /\ raised[HOST] = "ValueError"
    /\ pc[GUEST] = "review_models"

\* C8: a party that fails on an unknown review_strategy has sent and received
\* no protocol message and has called none of transfer_pubkey,
\* share_init_model, cal_prediction, compute_gradient.
C8_UnknownStrategyFailsAtInit ==
    \A p \in Party :
        raised[p] = "NotImplementedError" =>
            /\ \A m \in sent : m.sender # p
            /\ \A m \in delivered : m.recipient # p
            /\ \A k \in 1..Len(calls[p]) :
                  calls[p][k].op \notin {"transfer_pubkey", "share_init_model",
                                         "cal_prediction", "compute_gradient"}

\* C9: labels is set only at the Guest; the error argument of every
\* compute_gradient call of the Guest is from_value(y - labels) for the y of
\* that batch step, and the one of the Host is the result of its cal_prediction
\* of that batch step, unchanged (no labels read).
C9_OnlyGuestUsesLabels ==
    /\ labels[HOST] = None
    /\ \A p \in Party :
          \A k \in 1..Len(calls[p]) :
              LET c == calls[p][k]
                  pred == [kind |-> "share", tensor |-> "y", holder |-> p,
                           shape |-> 0, ver |-> c.suffix]
              IN  c.op = "compute_gradient" =>
                     IF p = GUEST
                     THEN /\ c.arg.kind = "from_value"
                          /\ c.arg.of.kind = "sub"
                          /\ c.arg.of.minuend = pred
                          /\ c.arg.of.subtrahend = [kind |-> "labels", of |-> GUEST]
                          /\ labels[p] = [kind |-> "labels", of |-> GUEST]
                     ELSE c.arg = pred

\* C9 witness: both parties have called compute_gradient.
C9_Witness ==
    \A p \in Party :
        \E k \in 1..Len(calls[p]) : calls[p][k].op = "compute_gradient"

\* C10: once check_converge has returned true the party is out of the loop,
\* that check_converge call (of iteration n_iter_) is the last call it made,
\* and from then on it makes no call, n_iter_ keeps its value and is_converged
\* stays true.
C10_StopsWhenConverged ==
    /\ [](\A p \in Party :
             is_converged[p] =>
                /\ pc[p] = "done"
                /\ calls[p][Len(calls[p])].op = "check_converge"
                /\ calls[p][Len(calls[p])].suffix = <<n_iter_[p]>>)
    /\ [][\A p \in Party :
             is_converged[p] =>
                /\ calls'[p] = calls[p]
                /\ n_iter_'[p] = n_iter_[p]
                /\ is_converged'[p]]_vars

\* C10 witness: a party converged in its second iteration, below max_iter,
\* while the other party is still running.
C10_Witness ==
    \E p \in Party :
        /\ is_converged[p]
        /\ n_iter_[p] = 1
        /\ pc[OtherParty(p)] \notin {"done", "failed"}

\* The calls of the training loop
LoopOps == {"cal_prediction", "share_z", "compute_gradient", "review_models",
            "check_converge"}

\* The calls party p makes in a step
NewCalls(p) == {calls'[p][k] : k \in (Len(calls[p]) + 1)..Len(calls'[p])}

\* C11: n_iter_ starts at 0, never exceeds max_iter, never decreases, grows by
\* exactly 1 at the end of each iteration that did not converge (and only
\* there); once n_iter_ = max_iter without convergence the party makes no
\* further call of the training loop.
C11_IterationCounter ==
    /\ [](\A p \in Party : n_iter_[p] \in 0..max_iter)
    /\ [][\A p \in Party :
             /\ n_iter_'[p] >= n_iter_[p]
             /\ n_iter_'[p] # n_iter_[p] =>
                   /\ n_iter_'[p] = n_iter_[p] + 1
                   /\ pc[p] = "check_converge"
                   /\ ~is_converged'[p]
             /\ (pc[p] = "check_converge" /\ pc'[p] # pc[p] /\ ~is_converged'[p]) =>
                   n_iter_'[p] = n_iter_[p] + 1
             /\ (n_iter_[p] = max_iter /\ ~is_converged[p]) =>
                   \A c \in NewCalls(p) : c.op \notin LoopOps]_vars

\* C11 witness: a party has left the loop after max_iter = 2 iterations
\* without convergence.
C11_Witness ==
    \E p \in Party :
        /\ max_iter = 2
        /\ n_iter_[p] = max_iter
        /\ ~is_converged[p]
        /\ pc[p] = "done"


\* The positions of party p's calls of operation op
CallsOf(p, op) == {k \in 1..Len(calls[p]) : calls[p][k].op = op}

\* C14: an operation that the role's class does not provide raises at its first
\* call: that call is the party's last one, the party has failed with the
\* error, the failing step sends nothing and leaves n_iter_, is_converged and
\* model_weights as they were, and nothing of the party changes afterwards.
C14_MissingOperationFailsAtFirstCall ==
    /\ [](\A p \in Party :
            /\ \A k \in CallsOf(p, missing[p]) :
                  /\ k = Len(calls[p])
                  /\ raised[p] = ShouldNotCallHere
            /\ raised[p] = ShouldNotCallHere =>
                  /\ pc[p] = "failed"
                  /\ Cardinality(CallsOf(p, missing[p])) = 1)
    /\ [][\A p \in Party :
             (raised'[p] = ShouldNotCallHere) =>
                /\ n_iter_'[p] = n_iter_[p]
                /\ is_converged'[p] = is_converged[p]
                /\ model_weights'[p] = model_weights[p]
                /\ {m \in sent' : m.sender = p} = {m \in sent : m.sender = p}
                /\ {m \in delivered' : m.recipient = p} =
                      {m \in delivered : m.recipient = p}
                /\ raised[p] = ShouldNotCallHere => calls'[p] = calls[p]]_vars

\* C14 happens: compute_gradient is missing at one party, which fails at its
\* first batch step after the model was shared, while the other party goes on.
C14_Witness ==
    \E p \in Party :
        /\ missing[p] = "compute_gradient"
        /\ raised[p] = ShouldNotCallHere
        /\ w_remote[p] # None
        /\ n_iter_[p] = 0
        /\ model_weights[p] = None
        /\ pc[OtherParty(p)] = "review_models"


\* C13 as stated: within one iteration of the while loop each of n_iter_,
\* is_converged and model_weights is assigned at most once.
C13_EachWrittenOncePerIteration ==
    \A p \in Party :
        /\ writes[p].n_iter_ <= 1
        /\ writes[p].is_converged <= 1
        /\ writes[p].model_weights <= 1

\* C13, amended: n_iter_ and is_converged are assigned at most once per
\* iteration of the while loop, and only by the step that ends the while body;
\* model_weights is assigned twice in every batch step (by review_models and
\* by fit_binary after it), 2 * n_batches times in an iteration that completes.
C13_WritesPerIteration ==
    /\ [](\A p \in Party :
            /\ writes[p].n_iter_ <= 1
            /\ writes[p].is_converged <= 1
            /\ writes[p].model_weights <= 2 * n_batches
            /\ pc[p] \in {"for", "cal_prediction", "error", "review_models",
                          "review_reconstruct", "review_hosted", "check_converge"} =>
                  /\ writes[p].model_weights = 2 * batch_idx[p]
                  /\ writes[p].n_iter_ = 0
                  /\ writes[p].is_converged = 0)
    /\ [][\A p \in Party :
             /\ (n_iter_'[p] # n_iter_[p] \/ is_converged'[p] # is_converged[p]) =>
                   pc[p] = "check_converge"
             /\ model_weights'[p] # model_weights[p] =>
                   pc[p] \in {"review_models", "review_reconstruct", "review_hosted"}]_vars

\* C13 happens: an iteration of two batches has ended without convergence,
\* with four assignments to model_weights and one to each of the others.
C13_Witness ==
    \E p \in Party :
        /\ n_batches = 2
        /\ pc[p] = "while"
        /\ writes[p] = [n_iter_ |-> 1, is_converged |-> 1, model_weights |-> 4]


\* Party p has aborted its run with an error of its own (not a timeout)
Aborted(p) == raised[p] \notin {"none", "TransferTimeout"}

BatchSteps == (0..(MaxIter - 1)) \X (0..(MaxBatches - 1))

\* Party p has called review_models for batch step s
EnteredReview(p, s) ==
    \E k \in 1..Len(calls[p]) : calls[p][k] = Call("review_models", s, None)

\* The review strategy is one of the two, and the Host's guard passes
ReviewCanRun ==
    \/ review_strategy = "respectively"
    \/ review_strategy = "all_review_in_guest" /\ ~GuardFails(HOST)

\* Party p is inside review_models
InReview(p) == pc[p] \in {"review_models", "review_reconstruct", "review_hosted"}

InitMessages(msgs) == {m \in msgs : m.suffix = <<-1>>}

\* C16: in share_init_model each of wb_-1 and wa_-1 has one supplier, the
\* party that owns the tensor (Guest wb, Host wa), which sends the other
\* party its share under the tensor's tag; the other party receives under that
\* same tag from the supplier; the first from_source never waits; and once
\* both parties have done their first from_source both complete the second.
C16_ShareInitModel ==
    /\ [](\A m \in InitMessages(sent) :
            /\ m.name = OwnTensor(m.sender)
            /\ m.recipient = OtherParty(m.sender)
            /\ m.payload = Share(m.name, m.recipient, features[m.sender], <<-1>>))
    /\ [](\A m1, m2 \in InitMessages(sent) : m1.name = m2.name => m1 = m2)
    /\ [](\A m \in InitMessages(delivered) :
            /\ m \in sent
            /\ m.name = OwnTensor(OtherParty(m.recipient))
            /\ w_remote[m.recipient].tensor = m.name
            /\ w_remote[m.recipient].holder = m.recipient)
    /\ [](\A p \in Party :
            /\ w_self[p] # None =>
                  /\ w_self[p].tensor = OwnTensor(p)
                  /\ w_self[p].holder = p
                  /\ w_self[p].shape = features[p]
            /\ w_remote[p] # None =>
                  \E m \in InitMessages(delivered) : m.recipient = p
            /\ pc[p] = "share_init_model" => ENABLED ShareInitModelOwn(p))
    /\ (\A p \in Party : w_self[p] # None) ~> (\A p \in Party : w_remote[p] # None)

\* C16 happens: both parties have completed share_init_model, each having
\* received its share of the other party's tensor.
C16_Witness ==
    /\ \A p \in Party : pc[p] = "while" /\ n_iter_[p] = 0 /\ w_remote[p] # None
    /\ {m.name : m \in InitMessages(delivered)} = {"wa", "wb"}
    /\ InitMessages(channel) = {}


\* The suffix of the last compute_gradient call of party p that returned
\* (review_models was called after it), or (-1,) when there is none
LastGradientSuffix(p) ==
    LET ret == {k \in 1..(Len(calls[p]) - 1) :
                   /\ calls[p][k].op = "compute_gradient"
                   /\ calls[p][k + 1].op = "review_models"}
    IN  IF ret = {} THEN <<-1>>
        ELSE calls[p][CHOOSE k \in ret : \A j \in ret : j <= k].suffix

\* C17: a step of review_models leaves w_self, w_remote, n_iter_ and
\* is_converged of the party as they were, and changes hosted_model_weights
\* only at the Guest under "all_review_in_guest"; so the shares a party holds
\* are always the ones its last compute_gradient returned (those of
\* share_init_model before the first), never shares made from disclosed weights.
C17_ReviewFrame ==
    /\ [][\A p \in Party :
             InReview(p) =>
                /\ w_self'[p] = w_self[p]
                /\ w_remote'[p] = w_remote[p]
                /\ n_iter_'[p] = n_iter_[p]
                /\ is_converged'[p] = is_converged[p]
                /\ hosted_model_weights'[p] # hosted_model_weights[p] =>
                      p = GUEST /\ review_strategy = "all_review_in_guest"]_vars
    /\ [](\A p \in Party :
            w_remote[p] # None =>
               /\ w_self[p] = Share(OwnTensor(p), p, features[p], LastGradientSuffix(p))
               /\ w_remote[p] = Share(OwnTensor(OtherParty(p)), p,
                                       features[OtherParty(p)], LastGradientSuffix(p)))

\* C17 happens: a party is in the second batch step of the second iteration,
\* after three reviews, still with the shares compute_gradient returned.
C17_Witness ==
    \E p \in Party :
        /\ pc[p] = "for"
        /\ reviewed[p] = {<<0, 0>>, <<0, 1>>, <<1, 0>>}
        /\ model_weights[p] # None
        /\ w_self[p].ver = <<1, 0>>
        /\ w_remote[p].ver = <<1, 0>>


\* What review_models returns to party p for a batch step: the weights
\* disclosed to it, or the zero vector at the Host under "all_review_in_guest"
Disclosed(p, step) ==
    IF p = HOST /\ review_strategy = "all_review_in_guest"
    THEN Zeros(features[p])
    ELSE [kind |-> "plain", tensor |-> OwnTensor(p), shape |-> features[p],
          ver |-> step]

\* hosted_model_weights of party p after the review of a batch step
HostedAfter(p, step) ==
    IF p = GUEST /\ review_strategy = "all_review_in_guest"
    THEN LinearModelWeights([kind |-> "plain", tensor |-> "wa",
                             shape |-> features[HOST], ver |-> step])
    ELSE None

\* C18: the n-th check_converge call of a party (n = 0, 1, ...) has suffix
\* (n,), directly follows the review_models call of the last batch of iteration
\* n, which has returned, and gets as new_w what that review returned and as
\* last_w [new_w of the call before, hosted_model_weights at the end of the
\* iteration before], or [w, None] in iteration 0; a party has made one call
\* for every iteration it finished.
C18_CheckConvergeCalls ==
    \A p \in Party :
        /\ Cardinality(CallsOf(p, "check_converge")) =
              n_iter_[p] + (IF is_converged[p] THEN 1 ELSE 0)
        /\ \A k \in CallsOf(p, "check_converge") :
              LET n == Cardinality({j \in CallsOf(p, "check_converge") : j < k})
                  last == <<n, n_batches - 1>>
                  c == calls[p][k]
              IN  /\ c.suffix = <<n>>
                  /\ k > 1
                  /\ calls[p][k - 1] = Call("review_models", last, None)
                  /\ last \in reviewed[p]
                  /\ c.arg.new_w = Disclosed(p, last)
                  /\ c.arg.last_w =
                        IF n = 0 THEN <<InitW(p), None>>
                        ELSE <<Disclosed(p, <<n - 1, n_batches - 1>>),
                               HostedAfter(p, <<n - 1, n_batches - 1>>)>>

\* C18 happens: the Guest, under "all_review_in_guest" with two batches, has
\* made its second check_converge call.
C18_Witness ==
    /\ review_strategy = "all_review_in_guest"
    /\ n_batches = 2
    /\ Cardinality(CallsOf(GUEST, "check_converge")) = 2
    /\ hosted_model_weights[GUEST] # None


\* The messages of share_z among msgs with the tag ("z",) + suffix
ZMessages(msgs, suffix) == {m \in msgs : m.name = "z" /\ m.suffix = suffix}

\* The positions of party p's share_z calls for a suffix
ShareZCalls(p, suffix) == {k \in CallsOf(p, "share_z") : calls[p][k].suffix = suffix}

\* C19: for every suffix the Host runs share_z at most once, sends with it
\* exactly one message tagged ("z",) + suffix, encrypted and addressed to the
\* Guest, and returns nothing; the Guest's share_z receives exactly one message
\* with that tag and returns three times the term it received.
C19_ShareZ ==
    \A s \in BatchSteps :
        /\ Cardinality(ShareZCalls(HOST, s)) <= 1
        /\ Cardinality(ShareZCalls(GUEST, s)) <= 1
        /\ Cardinality(ZMessages(sent, s)) = Cardinality(ShareZCalls(HOST, s))
        /\ Cardinality(ZMessages(delivered, s)) = Cardinality(ShareZCalls(GUEST, s))
        /\ ZMessages(delivered, s) \subseteq ZMessages(sent, s)
        /\ \A m \in ZMessages(sent, s) :
              /\ m.sender = HOST
              /\ m.recipient = GUEST
              /\ m.payload.kind = "cipher"
        /\ \A k \in ShareZCalls(HOST, s) : calls[HOST][k].arg = None
        /\ \A k \in ShareZCalls(GUEST, s) :
              \E m \in ZMessages(delivered, s) :
                  calls[GUEST][k].arg = <<m.payload, m.payload, m.payload>>

\* C19 happens: the Guest has returned from share_z of the second batch of the
\* second iteration, each of the Host's four z messages received.
C19_Witness ==
    /\ ShareZCalls(GUEST, <<1, 1>>) # {}
    /\ Cardinality({m \in delivered : m.name = "z"}) = 4
    /\ {m \in channel : m.name = "z"} = {}


\* Shares a and b are the two shares of tensor t, held by different parties
SharesOf(t, a, b) ==
    /\ a.kind = "share" /\ b.kind = "share"
    /\ a.tensor = t /\ b.tensor = t
    /\ a.holder # b.holder

\* C20: once both parties hold their shares, w_self at the Guest and w_remote
\* at the Host are the two shares of wb, and w_self at the Host and w_remote
\* at the Guest the two shares of wa; every share review_models sends under
\* the tag wb_<n> / wa_<n> is the sender's share of that tensor, and what a
\* party reconstructs from a received share is a plaintext of its tag's tensor.
C20_SharesPairUp ==
    /\ (\A p \in Party : w_remote[p] # None) =>
          /\ SharesOf("wb", w_self[GUEST], w_remote[HOST])
          /\ SharesOf("wa", w_self[HOST], w_remote[GUEST])
          /\ \A p \in Party : w_self[p].holder = p /\ w_remote[p].holder = p
    /\ \A m \in ReviewMessages(sent) :
          /\ m.payload.kind = "share"
          /\ m.payload.tensor = m.name
          /\ m.payload.holder = m.sender
    /\ \A p \in Party :
          /\ new_w[p] # None => new_w[p].kind \in {"plain", "zeros"}
          /\ new_w[p] # None /\ new_w[p].kind = "plain" => new_w[p].tensor = OwnTensor(p)
          /\ hosted_model_weights[p] # None =>
                /\ hosted_model_weights[p].l.kind = "plain"
                /\ hosted_model_weights[p].l.tensor = OwnTensor(OtherParty(p))

\* C20 happens: at a batch boundary of the second iteration each party has
\* reconstructed its weights from the other party's share ("respectively").
C20_Witness ==
    /\ review_strategy = "respectively"
    /\ \A p \in Party :
          /\ pc[p] = "for"
          /\ n_iter_[p] = 1
          /\ batch_idx[p] = 1
          /\ new_w[p].kind = "plain"
          /\ new_w[p].ver = <<1, 0>>


\* C21: when fit_binary has returned with max_iter >= 1, either is_converged
\* holds and n_iter_ < max_iter, or it does not hold and n_iter_ = max_iter;
\* and what get_single_model_param then returns carries these two values.
C21_FinalState ==
    \A p \in Party :
        (pc[p] = "done" /\ max_iter >= 1) =>
            /\ IF is_converged[p] THEN n_iter_[p] < max_iter
                                  ELSE n_iter_[p] = max_iter
            /\ exported[p] # None =>
                  /\ exported[p].kind = "result"
                  /\ exported[p].iters = n_iter_[p]
                  /\ exported[p].is_converged = is_converged[p]

\* C21 happens: one party exported a model that converged in its first
\* iteration, the other one a model that ran both iterations without.
C21_Witness ==
    /\ max_iter = 2
    /\ \A p \in Party : pc[p] = "done" /\ exported[p] # None
    /\ exported[GUEST].is_converged /\ exported[GUEST].iters = 0
    /\ ~exported[HOST].is_converged /\ exported[HOST].iters = 2


(***************************************************************************)
(* PipelinedModel (fate_flow/pipelined_model/pipelined_model.py): the      *)
(* local cache of one model id and version, worked on by processes that    *)
(* share the disk and the FileLock model_path/.lock.  A step is one access *)
(* to the disk or to the lock.                                             *)
(***************************************************************************)

\* Component names, model aliases and model names of the operations' arguments
Components == {"c1", "c2"}
Aliases == {"a1", "a2"}
ModelNames == {"n1", "n2"}

\* component_module_name of a component
ModuleOf(c) == IF c = "c1" THEN "HeteroLR" ELSE "DataIO"

\* type(buffer_object).__name__ of the buffer saved under a model name
ProtoClass(n) == IF n = "n1" THEN "LRModelParam" ELSE "LRModelMeta"

\* The arguments (component_name, model_alias, names of model_proto_index)
\* the operations are called with
UpdateArgs ==
    {[component |-> "c1", alias |-> "a1", names |-> {"n1"}],
     [component |-> "c1", alias |-> "a1", names |-> {"n2"}],
     [component |-> "c1", alias |-> "a2", names |-> {"n1"}],
     [component |-> "c2", alias |-> "a1", names |-> {"n1"}]}
SaveArgs ==
    {[component |-> "c1", alias |-> "a1", names |-> {"n1", "n2"}],
     [component |-> "c2", alias |-> "a1", names |-> {"n1"}]}
WriteArgs ==
    {[component |-> "c1", alias |-> "a2", names |-> {"n1"}]}
ReadArgs ==
    {[component |-> "c1", alias |-> "a1", names |-> {}]}

\* An operation with its arguments
Op(name, args) ==
    [op |-> name, component |-> args.component, alias |-> args.alias,
     names |-> args.names]

\* An operation without arguments
NoArgs == [component |-> "-", alias |-> "-", names |-> {}]

\* The directories create_pipelined_model makes below model_path
VariablesIndex == "variables/index"
VariablesData == "variables/data"
DefineProto == "define/proto"

\* {"describe": "This is the model definition meta"}
DescribeOnly ==
    [kind |-> "dict", keys |-> {"describe"}, component_define |-> {},
     model_proto |-> {}]

\* yaml.dump(d, f): the text of a YAML document
Dump(d) == [kind |-> "yaml", doc |-> d]

\* yaml.safe_load(f): the document, or None for an empty file
SafeLoad(f) == IF f.kind = "yaml" THEN f.doc ELSE [kind |-> "None"]

\* define_index after lines 232-238 of update_component_meta; dictionaries are
\* flattened: component_define holds (component, module_name), model_proto
\* holds (component, alias, model name, buffer class)
UpdatedIndex(d, o) ==
    [kind |-> "dict",
     keys |-> d.keys \cup {"component_define", "model_proto"},
     component_define |->
        {e \in d.component_define : e[1] # o.component}
           \cup {<<o.component, ModuleOf(o.component)>>},
     model_proto |->
        {e \in d.model_proto :
            ~(e[1] = o.component /\ e[2] = o.alias /\ e[3] \in o.names)}
           \cup {<<o.component, o.alias, n, ProtoClass(n)>> : n \in o.names}]

\* hashlib.sha1(content).hexdigest()
Sha1(a) == [kind |-> "sha1", of |-> a.content]

\* The text of a .sha1 file: a digest, with or without a final newline
Sha1Text(digest, newline) == [kind |-> "text", digest |-> digest, newline |-> newline]

\* f.read().strip()
Strip(text) == text.digest

\* The content shutil.make_archive packs: the cache as it is on disk
Snapshot == [subdirs |-> subdirs, meta |-> meta, files |-> files]

\* The archive of a cache that was created and holds no model yet
FreshArchive ==
    [kind |-> "zip",
     content |-> [subdirs |-> {VariablesIndex, VariablesData, DefineProto},
                  meta |-> Dump(DescribeOnly), files |-> {}]]

\* The archive of an empty directory
EmptyArchive ==
    [kind |-> "zip",
     content |-> [subdirs |-> {}, meta |-> [kind |-> "absent"], files |-> {}]]

\* The cache and its processes before the first operation: no cache on disk,
\* an archive to unpack, with or without a .sha1 file next to it
InitCache ==
    /\ path_exists = FALSE
    /\ subdirs = {}
    /\ meta = [kind |-> "absent"]
    /\ files = {}
    /\ lock = "free"
    /\ archive = FreshArchive
    /\ sha1_file \in {[kind |-> "absent"]}
                       \cup {Sha1Text(Sha1(FreshArchive), nl) : nl \in BOOLEAN}
                       \cup {Sha1Text(Sha1(EmptyArchive), FALSE)}
    /\ cpc = [q \in Procs |-> "idle"]
    /\ cop = [q \in Procs |-> NoOp]
    /\ loaded = [q \in Procs |-> [kind |-> "None"]]
    /\ cerr = [q \in Procs |-> "none"]
    /\ started = 0
    /\ completed = {}

\* Process q calls an operation
Called(q, o) ==
    /\ cpc[q] = "idle"
    /\ started < MaxOps
    /\ started' = started + 1
    /\ cop' = [cop EXCEPT ![q] = o]

\* The operation of process q raises e
Raises(q, e) ==
    /\ cpc' = [cpc EXCEPT ![q] = "idle"]
    /\ cerr' = [cerr EXCEPT ![q] = e]
    /\ UNCHANGED completed

\* The operation of process q goes on at position next
Goes(q, next) ==
    /\ cpc' = [cpc EXCEPT ![q] = next]
    /\ cerr' = [cerr EXCEPT ![q] = "none"]
    /\ UNCHANGED completed

\* The operation of process q returns
Returns(q) ==
    /\ cpc' = [cpc EXCEPT ![q] = "idle"]
    /\ cerr' = [cerr EXCEPT ![q] = "none"]
    /\ completed' = completed \cup {[proc |-> q, op |-> cop[q]]}

\* create_pipelined_model, line 75: FileExistsError when the cache exists
CreatePipelinedModel(q) ==
    /\ Called(q, Op("create", NoArgs))
    /\ IF path_exists THEN Raises(q, "FileExistsError")
                      ELSE Goes(q, "create_makedirs")
    /\ UNCHANGED <<lr_vars, path_exists, subdirs, meta, files, lock, archive,
                   sha1_file, loaded>>

\* A variant that makes the directory as with exist_ok=True.
CreateMakedirsExistOk(q) ==
    /\ cpc[q] = "create_makedirs"
    /\ path_exists' = TRUE
    /\ Goes(q, "create_lock")
    /\ UNCHANGED <<lr_vars, subdirs, meta, files, lock, archive, sha1_file, cop,
                   loaded, started>>

\* os.makedirs(self.model_path): FileExistsError when the directory exists
CreateMakedirs(q) ==
    /\ cpc[q] = "create_makedirs"
    /\ IF path_exists
       THEN /\ Raises(q, "FileExistsError")
            /\ UNCHANGED path_exists
       ELSE /\ path_exists' = TRUE
            /\ Goes(q, "create_lock")
    /\ UNCHANGED <<lr_vars, subdirs, meta, files, lock, archive, sha1_file, cop,
                   loaded, started>>

\* with self.lock: the lock is acquired once it is free
CreateLock(q) ==
    /\ cpc[q] = "create_lock"
    /\ lock = "free"
    /\ lock' = q
    /\ Goes(q, "create_variables")
    /\ UNCHANGED <<lr_vars, path_exists, subdirs, meta, files, archive, sha1_file,
                   cop, loaded, started>>

\* os.makedirs of variables/index, then of variables/data; each raises
\* FileExistsError when its directory exists, which releases the lock
CreateVariables(q) ==
    /\ cpc[q] = "create_variables"
    /\ IF VariablesIndex \in subdirs
       THEN /\ Raises(q, "FileExistsError")
            /\ lock' = "free"
            /\ UNCHANGED subdirs
       ELSE IF VariablesData \in subdirs
       THEN /\ Raises(q, "FileExistsError")
            /\ lock' = "free"
            /\ subdirs' = subdirs \cup {VariablesIndex}
       ELSE /\ subdirs' = subdirs \cup {VariablesIndex, VariablesData}
            /\ Goes(q, "create_proto")
            /\ UNCHANGED lock
    /\ UNCHANGED <<lr_vars, path_exists, meta, files, archive, sha1_file, cop,
                   loaded, started>>

\* shutil.copytree(..., self.define_proto_path)
CreateProto(q) ==
    /\ cpc[q] = "create_proto"
    /\ IF DefineProto \in subdirs
       THEN /\ Raises(q, "FileExistsError")
            /\ lock' = "free"
            /\ UNCHANGED subdirs
       ELSE /\ subdirs' = subdirs \cup {DefineProto}
            /\ Goes(q, "create_meta")
            /\ UNCHANGED lock
    /\ UNCHANGED <<lr_vars, path_exists, meta, files, archive, sha1_file, cop,
                   loaded, started>>

\* open(self.define_meta_path, "x"): the file is created, empty
CreateMetaOpen(q) ==
    /\ cpc[q] = "create_meta"
    /\ IF meta.kind # "absent"
       THEN /\ Raises(q, "FileExistsError")
            /\ lock' = "free"
            /\ UNCHANGED meta
       ELSE /\ meta' = [kind |-> "empty"]
            /\ Goes(q, "create_dump")
            /\ UNCHANGED lock
    /\ UNCHANGED <<lr_vars, path_exists, subdirs, files, archive, sha1_file, cop,
                   loaded, started>>

\* yaml.dump({"describe": ...}, fw); the file is closed and the lock released
CreateMetaDump(q) ==
    /\ cpc[q] = "create_dump"
    /\ meta' = Dump(DescribeOnly)
    /\ lock' = "free"
    /\ Returns(q)
    /\ UNCHANGED <<lr_vars, path_exists, subdirs, files, archive, sha1_file, cop,
                   loaded, started>>

\* A variant of the hash check that accepts every archive.
HashMismatchUnchecked == FALSE

\* Lines 202-207 of unpack_model: a .sha1 file lies next to the archive and
\* the archive's digest differs from its stripped content
HashMismatch ==
    /\ sha1_file.kind = "text"
    /\ Sha1(archive) # Strip(sha1_file)

\* unpack_model, lines 199-209: FileExistsError when the cache exists,
\* ValueError when the hash does not match
UnpackModel(q) ==
    /\ Called(q, Op("unpack", NoArgs))
    /\ IF path_exists THEN Raises(q, "FileExistsError")
       ELSE IF HashMismatch THEN Raises(q, "ValueError")
       ELSE Goes(q, "unpack_makedirs")
    /\ UNCHANGED <<lr_vars, path_exists, subdirs, meta, files, lock, archive,
                   sha1_file, loaded>>

\* os.makedirs(self.model_path)
UnpackMakedirs(q) ==
    /\ cpc[q] = "unpack_makedirs"
    /\ IF path_exists
       THEN /\ Raises(q, "FileExistsError")
            /\ UNCHANGED path_exists
       ELSE /\ path_exists' = TRUE
            /\ Goes(q, "unpack_lock")
    /\ UNCHANGED <<lr_vars, subdirs, meta, files, lock, archive, sha1_file, cop,
                   loaded, started>>

\* with self.lock
UnpackLock(q) ==
    /\ cpc[q] = "unpack_lock"
    /\ lock = "free"
    /\ lock' = q
    /\ Goes(q, "unpack_archive")
    /\ UNCHANGED <<lr_vars, path_exists, subdirs, meta, files, archive, sha1_file,
                   cop, loaded, started>>

\* What unpack_archive extracts with one of the two directories of the archive
Extracted(part) ==
    IF part = "define"
    THEN [subdirs |-> subdirs \cup (archive.content.subdirs \cap {DefineProto}),
          meta |-> IF archive.content.meta.kind = "absent" THEN meta
                   ELSE archive.content.meta,
          files |-> files]
    ELSE [subdirs |-> subdirs \cup (archive.content.subdirs
                                      \cap {VariablesIndex, VariablesData}),
          meta |-> meta,
          files |-> files \cup archive.content.files]

\* shutil.unpack_archive(archive_file_path, self.model_path): the directories
\* define and variables are extracted one after the other, in the order of the
\* archive's members; after the second one the lock is released
UnpackArchive(q) ==
    /\ cpc[q] \in {"unpack_archive", "unpack_define", "unpack_variables"}
    /\ \E part \in {"define", "variables"} :
          /\ cpc[q] # "unpack_" \o part
          /\ subdirs' = Extracted(part).subdirs
          /\ meta' = Extracted(part).meta
          /\ files' = Extracted(part).files
          /\ IF cpc[q] = "unpack_archive"
             THEN /\ Goes(q, "unpack_" \o part)
                  /\ UNCHANGED lock
             ELSE /\ Returns(q)
                  /\ lock' = "free"
    /\ UNCHANGED <<lr_vars, path_exists, archive, sha1_file, cop, loaded, started>>


\* local_cache_required: FileNotFoundError unless self.exists(), else the
\* method runs
LocalCacheRequired(q, method) ==
    IF path_exists THEN Goes(q, method) ELSE Raises(q, "FileNotFoundError")

\* update_component_meta is called: the check of local_cache_required
UpdateComponentMeta(q) ==
    /\ \E args \in UpdateArgs : Called(q, Op("update", args))
    /\ LocalCacheRequired(q, "update_lock")
    /\ UNCHANGED <<lr_vars, path_exists, subdirs, meta, files, lock, archive,
                   sha1_file, loaded>>

\* update_component_meta is called by save_component_model or
\* write_component_model: the check of local_cache_required
UpdateGuard(q) ==
    /\ cpc[q] = "update_guard"
    /\ LocalCacheRequired(q, "update_lock")
    /\ UNCHANGED <<lr_vars, path_exists, subdirs, meta, files, lock, archive,
                   sha1_file, cop, loaded, started>>

\* A variant that does not wait for the lock.
UpdateLockNoWait(q) ==
    /\ cpc[q] = "update_lock"
    /\ lock' = q
    /\ Goes(q, "update_load")
    /\ UNCHANGED <<lr_vars, path_exists, subdirs, meta, files, archive, sha1_file,
                   cop, loaded, started>>

\* with self.lock, ...: the lock is acquired once it is free
UpdateLock(q) ==
    /\ cpc[q] = "update_lock"
    /\ lock = "free"
    /\ lock' = q
    /\ Goes(q, "update_load")
    /\ UNCHANGED <<lr_vars, path_exists, subdirs, meta, files, archive, sha1_file,
                   cop, loaded, started>>

\* open(self.define_meta_path, "r+") and yaml.safe_load: FileNotFoundError
\* without the file, ValueError('Invalid meta file') unless it holds a dict
UpdateLoad(q) ==
    /\ cpc[q] = "update_load"
    /\ IF meta.kind = "absent"
       THEN /\ Raises(q, "FileNotFoundError")
            /\ lock' = "free"
            /\ UNCHANGED loaded
       ELSE IF SafeLoad(meta).kind # "dict"
       THEN /\ Raises(q, "ValueError")
            /\ lock' = "free"
            /\ UNCHANGED loaded
       ELSE /\ loaded' = [loaded EXCEPT ![q] = SafeLoad(meta)]
            /\ Goes(q, "update_write")
            /\ UNCHANGED lock
    /\ UNCHANGED <<lr_vars, path_exists, subdirs, meta, files, archive, sha1_file,
                   cop, started>>

\* Lines 230-243: the entries are merged into a copy of what was loaded, the
\* file is rewritten if the copy differs, and the lock is released
UpdateWrite(q) ==
    /\ cpc[q] = "update_write"
    /\ IF UpdatedIndex(loaded[q], cop[q]) # loaded[q]
       THEN meta' = Dump(UpdatedIndex(loaded[q], cop[q]))
       ELSE UNCHANGED meta
    /\ lock' = "free"
    /\ Returns(q)
    /\ UNCHANGED <<lr_vars, path_exists, subdirs, files, archive, sha1_file, cop,
                   loaded, started>>

\* The buffer files of the operation of process q that are not yet written
Unwritten(q) ==
    {<<cop[q].component, cop[q].alias, n>> : n \in cop[q].names} \ loaded[q].written

\* A variant that records the names before the buffer files are written.
AfterBuffersMetaFirst(q) == "update_guard"

\* Where save_component_model and write_component_model go on after a buffer
\* file: the next buffer file, or update_component_meta after the last one
AfterBuffers(q) ==
    IF Cardinality(Unwritten(q)) > 1 THEN cpc[q] ELSE "update_guard"

\* save_component_model without tracker_client, line 92:
\* os.makedirs(component_model_storage_path, exist_ok=True)
SaveComponentModel(q) ==
    /\ \E args \in SaveArgs : Called(q, Op("save", args))
    /\ path_exists' = TRUE
    /\ subdirs' = subdirs \cup {VariablesData}
    /\ loaded' = [loaded EXCEPT ![q] = [kind |-> "buffers", written |-> {}]]
    /\ Goes(q, "save_buffer")
    /\ UNCHANGED <<lr_vars, meta, files, lock, archive, sha1_file>>

\* Lines 101-102: with self.lock, open(storage_path, "wb"): one buffer file
\* is written while the lock is held
SaveBuffer(q) ==
    /\ cpc[q] = "save_buffer"
    /\ lock = "free"
    /\ \E f \in Unwritten(q) :
          /\ files' = files \cup {f}
          /\ loaded' = [loaded EXCEPT ![q].written = @ \cup {f}]
    /\ Goes(q, AfterBuffers(q))
    /\ UNCHANGED <<lr_vars, path_exists, subdirs, meta, lock, archive, sha1_file,
                   cop, started>>

\* write_component_model is called with the component_model that
\* save_component_model builds for a tracker_client
WriteComponentModel(q) ==
    /\ \E args \in WriteArgs : Called(q, Op("write", args))
    /\ loaded' = [loaded EXCEPT ![q] = [kind |-> "buffers", written |-> {}]]
    /\ Goes(q, "write_buffer")
    /\ UNCHANGED <<lr_vars, path_exists, subdirs, meta, files, lock, archive,
                   sha1_file>>

\* Lines 124-126: os.makedirs(dirname, exist_ok=True) and one buffer file
\* written, without the lock
WriteBuffer(q) ==
    /\ cpc[q] = "write_buffer"
    /\ path_exists' = TRUE
    /\ subdirs' = subdirs \cup {VariablesData}
    /\ \E f \in Unwritten(q) :
          /\ files' = files \cup {f}
          /\ loaded' = [loaded EXCEPT ![q].written = @ \cup {f}]
    /\ Goes(q, AfterBuffers(q))
    /\ UNCHANGED <<lr_vars, meta, lock, archive, sha1_file, cop, started>>

\* What a reader does with the meta file: FileNotFoundError without the file,
\* AttributeError on define_index.get when the file is empty (None), else
\* the entries of model_proto under the (component, alias) pairs it asks for
\* are kept
ReadsIndex(q, pairs, next) ==
    IF meta.kind = "absent"
    THEN Raises(q, "FileNotFoundError") /\ UNCHANGED loaded
    ELSE IF SafeLoad(meta).kind # "dict"
    THEN Raises(q, "AttributeError") /\ UNCHANGED loaded
    ELSE /\ loaded' = [loaded EXCEPT ![q] =
                          [kind |-> "index",
                           entries |-> {e \in SafeLoad(meta).model_proto :
                                           <<e[1], e[2]>> \in pairs}]]
         /\ Goes(q, next)

\* A reader opens the buffer file of every entry it keeps: FileNotFoundError
\* when one is not on disk
ReadsBuffers(q) ==
    IF \A e \in loaded[q].entries : <<e[1], e[2], e[3]>> \in files
    THEN Returns(q)
    ELSE Raises(q, "FileNotFoundError")

\* read_component_model calls get_model_proto_index: the check of
\* local_cache_required
ReadComponentModel(q) ==
    /\ \E args \in ReadArgs : Called(q, Op("read", args))
    /\ LocalCacheRequired(q, "read_index")
    /\ UNCHANGED <<lr_vars, path_exists, subdirs, meta, files, lock, archive,
                   sha1_file, loaded>>

\* get_model_proto_index, lines 247-249
GetModelProtoIndex(q) ==
    /\ cpc[q] = "read_index"
    /\ ReadsIndex(q, {<<cop[q].component, cop[q].alias>>}, "read_buffer")
    /\ UNCHANGED <<lr_vars, path_exists, subdirs, meta, files, lock, archive,
                   sha1_file, cop, started>>

\* read_component_model, lines 139-147
ReadBuffers(q) ==
    /\ cpc[q] = "read_buffer"
    /\ ReadsBuffers(q)
    /\ UNCHANGED <<lr_vars, path_exists, subdirs, meta, files, lock, archive,
                   sha1_file, cop, loaded, started>>

\* collect_models is called: the check of local_cache_required
CollectModels(q) ==
    /\ Called(q, Op("collect", NoArgs))
    /\ LocalCacheRequired(q, "collect_index")
    /\ UNCHANGED <<lr_vars, path_exists, subdirs, meta, files, lock, archive,
                   sha1_file, loaded>>

\* collect_models, lines 152-154
CollectIndex(q) ==
    /\ cpc[q] = "collect_index"
    /\ ReadsIndex(q, Components \X Aliases, "collect_buffer")
    /\ UNCHANGED <<lr_vars, path_exists, subdirs, meta, files, lock, archive,
                   sha1_file, cop, started>>

\* collect_models, lines 155-167
CollectBuffers(q) ==
    /\ cpc[q] = "collect_buffer"
    /\ ReadsBuffers(q)
    /\ UNCHANGED <<lr_vars, path_exists, subdirs, meta, files, lock, archive,
                   sha1_file, cop, loaded, started>>

\* get_component_define is called: the check of local_cache_required
GetComponentDefine(q) ==
    /\ Called(q, Op("define", NoArgs))
    /\ LocalCacheRequired(q, "define_index")
    /\ UNCHANGED <<lr_vars, path_exists, subdirs, meta, files, lock, archive,
                   sha1_file, loaded>>

\* get_component_define, lines 253-258
ComponentDefine(q) ==
    /\ cpc[q] = "define_index"
    /\ IF meta.kind = "absent" THEN Raises(q, "FileNotFoundError")
       ELSE IF SafeLoad(meta).kind # "dict" THEN Raises(q, "AttributeError")
       ELSE Returns(q)
    /\ UNCHANGED <<lr_vars, path_exists, subdirs, meta, files, lock, archive,
                   sha1_file, cop, loaded, started>>

\* packaging_model is called: the check of local_cache_required
PackagingModel(q) ==
    /\ Called(q, Op("packaging", NoArgs))
    /\ LocalCacheRequired(q, "packaging_archive")
    /\ UNCHANGED <<lr_vars, path_exists, subdirs, meta, files, lock, archive,
                   sha1_file, loaded>>

\* shutil.make_archive(..., root_dir=self.model_path)
MakeArchive(q) ==
    /\ cpc[q] = "packaging_archive"
    /\ archive' = [kind |-> "zip", content |-> Snapshot]
    /\ Goes(q, "packaging_sha1")
    /\ UNCHANGED <<lr_vars, path_exists, subdirs, meta, files, lock, sha1_file,
                   cop, loaded, started>>

\* Lines 189-192: the digest of the archive is written to the .sha1 file
WriteSha1(q) ==
    /\ cpc[q] = "packaging_sha1"
    /\ sha1_file' = Sha1Text(Sha1(archive), FALSE)
    /\ Returns(q)
    /\ UNCHANGED <<lr_vars, path_exists, subdirs, meta, files, lock, archive,
                   cop, loaded, started>>

\* One step of process q on the local cache
CacheStep(q) ==
    \/ CreatePipelinedModel(q)
    \/ CreateMakedirs(q)
    \/ CreateLock(q)
    \/ CreateVariables(q)
    \/ CreateProto(q)
    \/ CreateMetaOpen(q)
    \/ CreateMetaDump(q)
    \/ UnpackModel(q)
    \/ UnpackMakedirs(q)
    \/ UnpackLock(q)
    \/ UnpackArchive(q)
    \/ UpdateComponentMeta(q)
    \/ UpdateGuard(q)
    \/ UpdateLock(q)
    \/ UpdateLoad(q)
    \/ UpdateWrite(q)
    \/ SaveComponentModel(q)
    \/ SaveBuffer(q)
    \/ WriteComponentModel(q)
    \/ WriteBuffer(q)
    \/ ReadComponentModel(q)
    \/ GetModelProtoIndex(q)
    \/ ReadBuffers(q)
    \/ CollectModels(q)
    \/ CollectIndex(q)
    \/ CollectBuffers(q)
    \/ GetComponentDefine(q)
    \/ ComponentDefine(q)
    \/ PackagingModel(q)
    \/ MakeArchive(q)
    \/ WriteSha1(q)

\* The processes work on the cache concurrently.
NextCache == \E q \in Procs : CacheStep(q)

\* No training runs while the cache is worked on.
LRIdle ==
    /\ review_strategy = "respectively"
    /\ max_iter = 0
    /\ n_batches = 1
    /\ features = [p \in Party |-> 1]
    /\ missing = [p \in Party |-> "none"]
    /\ InitState

\* The processes start on a disk without the cache, and no training runs.
InitCacheOnly == LRIdle /\ InitCache

SpecCache == InitCacheOnly /\ [][NextCache]_vars


\* The operations that end in update_component_meta
Updating == {"update", "save", "write"}

\* The entries of model_proto that update_component_meta records for operation o
EntriesOf(o) == {<<o.component, o.alias, n, ProtoClass(n)>> : n \in o.names}

\* define_meta.yaml holds what operation o records
Recorded(o) ==
    /\ SafeLoad(meta).kind = "dict"
    /\ EntriesOf(o) \subseteq SafeLoad(meta).model_proto
    /\ <<o.component, ModuleOf(o.component)>> \in SafeLoad(meta).component_define

\* define_meta.yaml, once it holds a dict, loses no entry in a step
EntriesKept ==
    SafeLoad(meta).kind = "dict" =>
        /\ SafeLoad(meta').kind = "dict"
        /\ SafeLoad(meta).model_proto \subseteq SafeLoad(meta').model_proto
        /\ SafeLoad(meta).component_define \subseteq SafeLoad(meta').component_define

\* An update whose entries the file holds already does not rewrite the file
RepeatedUpdateWritesNothing ==
    \A q \in Procs :
        (cpc[q] = "update_write" /\ cpc'[q] = "idle" /\ Recorded(cop[q]))
            => meta' = meta

\* C22: update_component_meta reads, merges and writes define_meta.yaml under
\* the file lock: what every returned update recorded is in the file, also
\* when two processes updated concurrently with different components, aliases
\* or model names (no lost update); no step removes an entry that is present;
\* and an update whose entries are present leaves the file unchanged.
C22_NoLostUpdate ==
    /\ [](\A r \in completed : r.op.op \in Updating => Recorded(r.op))
    /\ [][EntriesKept /\ RepeatedUpdateWritesNothing]_vars

\* The cache was created and both processes have returned from updates of the
\* same component and alias with different model names; the file holds both
C22_Witness ==
    /\ started = 3
    /\ \A q \in Procs : cpc[q] = "idle" /\ cerr[q] = "none"
    /\ \E r1, r2 \in completed :
          /\ r1.proc = "P1" /\ r2.proc = "P2"
          /\ r1.op.op = "update" /\ r2.op.op = "update"
          /\ r1.op # r2.op
          /\ r1.op.component = r2.op.component /\ r1.op.alias = r2.op.alias
          /\ Recorded(r1.op) /\ Recorded(r2.op)
    /\ Cardinality(SafeLoad(meta).model_proto) = 2


\* The operations that local_cache_required guards (read_component_model runs
\* the guarded get_model_proto_index)
Guarded == {"update", "read", "collect", "define", "packaging"}

\* The positions inside the body of a guarded method, after its existence check
GuardedBody ==
    {"update_lock", "update_load", "update_write", "read_index", "read_buffer",
     "collect_index", "collect_buffer", "define_index", "packaging_archive",
     "packaging_sha1"}

\* The cache is fully initialised
Initialised ==
    /\ SafeLoad(meta).kind = "dict"
    /\ {VariablesIndex, VariablesData} \subseteq subdirs

\* Process q runs a guarded operation while the other process, and nothing
\* else, runs create_pipelined_model
ConcurrentWithCreate(q) ==
    /\ started <= 2
    /\ cop[q].op \in Guarded
    /\ \E o \in Procs \ {q} : cop[o].op = "create"

\* C23: an operation guarded by local_cache_required that runs concurrently
\* with create_pipelined_model either fails the existence check with
\* FileNotFoundError or finds the cache fully initialised: it is in the body of
\* its method only when define_meta.yaml and the variables directories exist.
C23_GuardedFindsInitialisedCache ==
    \A q \in Procs :
        (ConcurrentWithCreate(q) /\ cpc[q] \in GuardedBody) => Initialised


\* What lies below model_path, with its lock
disk == <<path_exists, subdirs, meta, files, lock>>

\* The positions of create_pipelined_model after os.makedirs(self.model_path)
CreateBody ==
    {"create_lock", "create_variables", "create_proto", "create_meta", "create_dump"}

\* The processes that made model_path in create_pipelined_model
Creators ==
    {q \in Procs : \/ cop[q].op = "create" /\ cpc[q] \in CreateBody
                   \/ [proc |-> q, op |-> Op("create", NoArgs)] \in completed}

\* A step of create_pipelined_model that finds model_path on disk, at the
\* check of line 75 or in os.makedirs at line 78, raises FileExistsError and
\* leaves the disk as it is
CreateOnExistingPath ==
    \A q \in Procs :
        ((CreatePipelinedModel(q) \/ CreateMakedirs(q)) /\ path_exists)
            => /\ cerr'[q] = "FileExistsError"
               /\ cpc'[q] = "idle"
               /\ completed' = completed
               /\ disk' = disk

\* Each of the two processes has called create_pipelined_model, and nothing else
TwoCreates == started = 2 /\ \A q \in Procs : cop[q].op = "create"

\* C24: create_pipelined_model on a cache path that exists raises
\* FileExistsError and changes nothing on disk; model_path is made by at most
\* one process, and when two processes call create_pipelined_model
\* concurrently, once both are back exactly one has created the cache, whole,
\* and the other has failed with FileExistsError.
C24_CreateOnce ==
    /\ [][CreateOnExistingPath]_vars
    /\ [](Cardinality(Creators) <= 1)
    /\ []((TwoCreates /\ \A q \in Procs : cpc[q] = "idle") =>
             /\ Cardinality(Creators) = 1
             /\ \A q \in Procs \ Creators : cerr[q] = "FileExistsError"
             /\ \A q \in Creators : cerr[q] = "none"
             /\ Initialised /\ DefineProto \in subdirs
             /\ meta = Dump(DescribeOnly))

\* Two concurrent calls are over: P2 has created the cache and P1 has failed
C24_Witness ==
    /\ TwoCreates
    /\ \A q \in Procs : cpc[q] = "idle"
    /\ Creators = {"P2"}
    /\ cerr["P1"] = "FileExistsError"
    /\ meta = Dump(DescribeOnly)


\* The entries of model_proto that a returned call of update_component_meta
\* itself, not one of save_component_model or write_component_model, recorded
UpdatedDirectly ==
    UNION {EntriesOf(r.op) : r \in {c \in completed : c.op.op = "update"}}

\* The entries of the meta index
MetaIndex ==
    IF SafeLoad(meta).kind = "dict" THEN SafeLoad(meta).model_proto ELSE {}

\* The buffer file of an entry of the meta index is on disk
OnDisk(e) == <<e[1], e[2], e[3]>> \in files

\* A reader that opens the buffer files of the entries it read finds them
ReaderFindsBuffers ==
    \A q \in Procs :
        ((ReadBuffers(q) \/ CollectBuffers(q))
            /\ loaded[q].entries \cap UpdatedDirectly = {})
          => (cerr'[q] = "none" /\ [proc |-> q, op |-> cop[q]] \in completed')

\* C25: while save_component_model, write_component_model and the readers
\* interleave, every model name that save_component_model or
\* write_component_model recorded in the meta index has its buffer file on
\* disk, and a reader finds the buffer file of every name it read there.
C25_IndexedBuffersOnDisk ==
    /\ [](\A e \in MetaIndex \ UpdatedDirectly : OnDisk(e))
    /\ [][ReaderFindsBuffers]_vars

\* P1 has saved two buffers and recorded them while P2, which read the index
\* with both names, is about to open the buffer files
C25_Witness ==
    /\ [proc |-> "P1", op |-> Op("save", [component |-> "c1", alias |-> "a1",
                                           names |-> {"n1", "n2"}])] \in completed
    /\ cpc["P2"] \in {"read_buffer", "collect_buffer"}
    /\ Cardinality(loaded["P2"].entries) = 2
    /\ \A e \in loaded["P2"].entries : OnDisk(e)


\* The positions of unpack_model after its checks, lines 211-213
UnpackBody ==
    {"unpack_makedirs", "unpack_lock", "unpack_archive", "unpack_define",
     "unpack_variables"}

\* A .sha1 file lies next to the archive and does not hold the archive's digest
DigestDiffers ==
    /\ sha1_file.kind = "text"
    /\ sha1_file.digest # [kind |-> "sha1", of |-> archive.content]

\* unpack_model on a cache that exists raises FileExistsError, at the check of
\* line 199 or in os.makedirs at line 211
UnpackOnExistingCache ==
    \A q \in Procs :
        ((UnpackModel(q) \/ UnpackMakedirs(q)) /\ path_exists)
            => cerr'[q] = "FileExistsError" /\ cpc'[q] = "idle"

\* unpack_model without a cache raises ValueError when the digest differs
UnpackOnDigestMismatch ==
    \A q \in Procs :
        (UnpackModel(q) /\ ~path_exists /\ DigestDiffers)
            => cerr'[q] = "ValueError" /\ cpc'[q] = "idle"

\* A step of unpack_model that raises leaves the disk as it is
UnpackErrorChangesNothing ==
    \A q \in Procs :
        ((UnpackModel(q) \/ UnpackMakedirs(q)) /\ cerr'[q] # "none")
            => disk' = disk /\ completed' = completed

\* unpack_model makes model_path and unpacks only after both checks passed
UnpackAfterChecks ==
    \A q \in Procs :
        cpc'[q] \in UnpackBody =>
            \/ cpc[q] \in UnpackBody
            \/ cpc[q] = "idle" /\ ~path_exists /\ ~DigestDiffers

\* C26: unpack_model raises FileExistsError when the local cache exists and
\* ValueError when a .sha1 file lies next to the archive and the archive's
\* SHA-1 digest differs from the digest in it; in both cases model_path is
\* neither made nor changed; and model_path is made and the archive unpacked
\* only after both checks passed.
C26_UnpackChecks ==
    [][/\ UnpackOnExistingCache
       /\ UnpackOnDigestMismatch
       /\ UnpackErrorChangesNothing
       /\ UnpackAfterChecks]_vars

\* P2 was refused an archive whose digest differs while there was no cache,
\* P1 then created the cache and was refused unpack_model on it; the cache
\* is as create_pipelined_model left it
C26_Witness ==
    /\ \A q \in Procs : cop[q].op = "unpack" /\ cpc[q] = "idle"
    /\ cerr["P1"] = "FileExistsError"
    /\ cerr["P2"] = "ValueError"
    /\ DigestDiffers
    /\ [proc |-> "P1", op |-> Op("create", NoArgs)] \in completed
    /\ meta = Dump(DescribeOnly) /\ files = {}

====
